----------------------------- MODULE SessionLock -----------------------------
(***************************************************************************)
(* What a session's lock promises its clients, without nested requests,    *)
(* the COMMIT pseudo-pid or deferred calls: a pid that takes the lock      *)
(* keeps it until it gives it up, and an exclusive operation (validate,    *)
(* commit) runs alone, never against the lock of another pid, and leaves   *)
(* the lock as it found it.                                                *)
(***************************************************************************)
CONSTANT Pid
VARIABLES holder,     \* 0 if the session is not locked
          exclusive   \* a validate or commit is running

Init == holder = 0 /\ exclusive = FALSE

Acquire(p) == /\ ~exclusive /\ holder = 0
              /\ holder' = p
              /\ UNCHANGED exclusive

Release(p) == /\ ~exclusive /\ holder = p
              /\ holder' = 0
              /\ UNCHANGED exclusive

Begin(p) == /\ ~exclusive /\ holder \in {0, p}
            /\ exclusive' = TRUE
            /\ UNCHANGED holder

End == /\ exclusive
       /\ exclusive' = FALSE
       /\ UNCHANGED holder

Next == (\E p \in Pid : Acquire(p) \/ Release(p) \/ Begin(p)) \/ End

Spec == Init /\ [][Next]_<<holder, exclusive>>
=============================================================================

------------------------------ MODULE JniRefs ------------------------------
(***************************************************************************)
(* What the JVM asks of native code that keeps a global reference (the     *)
(* new_global/del_global of android/core/src/main/cpp): a reference is     *)
(* created once, deleted at most once, used only while it exists, and not  *)
(* deleted while a native thread is inside a call through it.  This is the *)
(* contract the Go core's bridges implement.                               *)
(***************************************************************************)

CONSTANTS
    Refs,   \* global references ever created
    Users,  \* native threads calling into the JVM
    None    \* "inside no call", not a reference

VARIABLES
    ref,    \* "unborn", "live" or "deleted"
    user    \* the reference a thread is inside a call of, or None

NewGlobalRef(r) ==
    /\ ref[r] = "unborn"
    /\ ref' = [ref EXCEPT ![r] = "live"]
    /\ UNCHANGED user

EnterCall(u, r) ==
    /\ user[u] = None /\ ref[r] = "live"
    /\ user' = [user EXCEPT ![u] = r]
    /\ UNCHANGED ref

LeaveCall(u) ==
    /\ user[u] # None
    /\ user' = [user EXCEPT ![u] = None]
    /\ UNCHANGED ref

DeleteGlobalRef(r) ==
    /\ ref[r] = "live"
    /\ \A u \in Users : user[u] # r
    /\ ref' = [ref EXCEPT ![r] = "deleted"]
    /\ UNCHANGED user

Init ==
    /\ ref = [r \in Refs |-> "unborn"]
    /\ user = [u \in Users |-> None]

Next ==
    \/ \E r \in Refs : NewGlobalRef(r) \/ DeleteGlobalRef(r)
    \/ \E u \in Users, r \in Refs : EnterCall(u, r)
    \/ \E u \in Users : LeaveCall(u)

Spec == Init /\ [][Next]_<<ref, user>>
=============================================================================

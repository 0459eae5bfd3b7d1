---------------------------- MODULE OneShotReply ----------------------------
(***************************************************************************)
(* What an async host function promises the script that calls it: the      *)
(* script's Promise settles at most once, only as the host answered or     *)
(* because the call could not start, and never once the script version     *)
(* that made the call is retired.  HostPromises implements it with         *)
(* inboxes, threads, a wake flag and polling.                              *)
(***************************************************************************)

CONSTANTS Calls,      \* every async host call made
          Versions,   \* the script versions making them
          VersionOf   \* the version that makes each call

VARIABLES promise,    \* the script's side of each call
          host,       \* the host's side: its resolver, or how it ended
          retired     \* versions that were replaced or unloaded

vars == <<promise, host, retired>>

Answers == {"resolved", "rejected", "dropped"}

Init == /\ promise = [c \in Calls |-> "none"]
        /\ host = [c \in Calls |-> "none"]
        /\ retired = {}

\* The handler received a resolver and the script a Promise to wait on.
Start(c) == /\ promise[c] = "none"
            /\ VersionOf[c] \notin retired
            /\ promise' = [promise EXCEPT ![c] = "waiting"]
            /\ host' = [host EXCEPT ![c] = "held"]
            /\ UNCHANGED retired

\* The call rejects before any handler runs.
Refuse(c) == /\ promise[c] = "none"
             /\ promise' = [promise EXCEPT ![c] = "rejected"]
             /\ UNCHANGED <<host, retired>>

\* The handler failed: the Promise rejects, whatever its resolver does later.
HandlerFails(c) == /\ promise[c] = "waiting"
                   /\ VersionOf[c] \notin retired
                   /\ promise' = [promise EXCEPT ![c] = "rejected"]
                   /\ UNCHANGED <<host, retired>>

\* The one answer of a resolver; a retired version refuses it.
Answer(c) == /\ host[c] = "held"
             /\ \E a \in IF VersionOf[c] \in retired THEN {"cancelled"} ELSE Answers :
                     host' = [host EXCEPT ![c] = a]
             /\ UNCHANGED <<promise, retired>>

\* The script sees the answer; a resolved value that does not convert rejects.
Deliver(c) == /\ promise[c] = "waiting"
              /\ VersionOf[c] \notin retired
              /\ host[c] \in Answers
              /\ \E p \in IF host[c] = "resolved" THEN {"resolved", "rejected"}
                                                  ELSE {"rejected"} :
                      promise' = [promise EXCEPT ![c] = p]
              /\ UNCHANGED <<host, retired>>

Retire(v) == /\ v \notin retired
             /\ retired' = retired \cup {v}
             /\ UNCHANGED <<promise, host>>

Next == \/ \E c \in Calls : Start(c) \/ Refuse(c) \/ HandlerFails(c) \/ Answer(c) \/ Deliver(c)
        \/ \E v \in Versions : Retire(v)

Spec == Init /\ [][Next]_vars
=============================================================================

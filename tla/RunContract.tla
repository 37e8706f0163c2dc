---------------------------- MODULE RunContract ----------------------------
(***************************************************************************)
(* What the `runs` table promises to whoever starts a run with an          *)
(* idempotency key or asks for a run's status: a key is claimed by at most *)
(* one run and for ever, a run is PENDING until its first stage starts,    *)
(* and SUCCEEDED and FAILED are final.                                     *)
(***************************************************************************)

CONSTANTS Runs,    \* identities of runs
          Keys,    \* idempotency keys
          NoRun    \* "no run has claimed this key"

VARIABLES owner,   \* the run that claimed each key
          st       \* the status a reader of the table sees for each run

vars == <<owner, st>>

Unborn == "none"   \* the run has no row

Init == /\ owner = [k \in Keys |-> NoRun]
        /\ st = [r \in Runs |-> Unborn]

Claim(r, k) == /\ owner[k] = NoRun
               /\ st[r] = Unborn
               /\ owner' = [owner EXCEPT ![k] = r]
               /\ st' = [st EXCEPT ![r] = "PENDING"]

Progress(r) == /\ st[r] = "PENDING"
               /\ st' = [st EXCEPT ![r] = "RUNNING"]
               /\ UNCHANGED owner

\* Only a run that has been through a stage succeeds.
Finish(r) == /\ st[r] = "RUNNING"
             /\ st' = [st EXCEPT ![r] = "SUCCEEDED"]
             /\ UNCHANGED owner

Abort(r) == /\ st[r] \in {"PENDING", "RUNNING"}
            /\ st' = [st EXCEPT ![r] = "FAILED"]
            /\ UNCHANGED owner

Next == \E r \in Runs : \/ \E k \in Keys : Claim(r, k)
                        \/ Progress(r)
                        \/ Finish(r)
                        \/ Abort(r)

Spec == Init /\ [][Next]_vars
=============================================================================

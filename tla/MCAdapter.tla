----------------------------- MODULE MCAdapter -----------------------------
(***************************************************************************)
(* The adapter for TLC, in two scenes.  "settings" has two routes, one of  *)
(* the catalog and one that only the settings declare, and three profiles: *)
(* two of one name that differ in their retry policy, so that the registry *)
(* may change while the directory does not, and one whose name differs.    *)
(* Nobody calls, and nothing is configured at first (what could have been  *)
(* is reached by a change that is announced).  "calls" has calls while     *)
(* settings change, on one route and over the two profiles of one name,    *)
(* with two collections to tell the one a call holds from a new one.       *)
(***************************************************************************)
EXTENDS AdapterCall, TLC

CONSTANTS p1, p2, p3, r1, r2, m1

VARIABLE scene

MCNameOf == p1 :> "a" @@ p2 :> "a" @@ p3 :> "b"
MCRetryOf == p1 :> 1 @@ p2 :> 2 @@ p3 :> 1

FewSettings == {s \in Settings : s[r1] \in {p1, p2, Absent} /\ s[r2] = Absent}

MCInit ==
    /\ Init
    /\ route = [c \in Calls |-> r1]
    /\ \/ scene = "settings" /\ NoRoutes(settings) /\ memo.models = m1
       \/ scene = "calls" /\ settings \in FewSettings

MCNext ==
    /\ UNCHANGED scene
    /\ \/ scene = "settings" /\ RoutesNext /\ UNCHANGED <<memo, collection, callVars>>
       \/ scene = "calls" /\ Next /\ settings' \in FewSettings

\* FairSpec in the scene that was chosen.
MCSpec ==
    /\ MCInit
    /\ [][MCNext]_<<vars, scene>>
    /\ \A c \in Calls :
          /\ WF_vars(CallStep(c))
          /\ WF_vars(IdleFires(c))
          /\ WF_vars(Settles(c))
=============================================================================

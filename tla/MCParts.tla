------------------------------ MODULE MCParts ------------------------------
(* Parts that share no state, one of them in each behaviour: the tool       *)
(* server, the stripboard, the pages, the collaborators, the rate limiter   *)
(* and the donations.                                                       *)
EXTENDS ToolServer, Membership, RateLimiter, Donations, ProductionPages, Stripboard, TLC

CONSTANTS a1, c1, c2, kitchenDay, kitchenNight, yard, untitled,
          ann, bob, d1, d2

VARIABLE at    \* the part that runs

MCConnectors == {a1}
MCClients == {c1, c2}
MCPlace == kitchenDay :> "kitchen" @@ kitchenNight :> "kitchen" @@ yard :> "yard"
           @@ untitled :> "untitled"
MCScripts == {<<kitchenDay, yard, kitchenNight>>, <<untitled, kitchenDay>>}
MCUsers == {ann, bob}
MCRoles == {"owner", "editor"}
MCSessions == {d1, d2}
MCIds == Permutations(MCClients) \union Permutations(MCSessions)

(* The versions of the script are such as the theorems on the schedule assume. *)
ASSUME MCVersions == VersionsShareAScene

partVars == <<at, vars, boardVars, productionVars, membershipVars, limiterVars, donationVars>>

PartsInit ==
  /\ at \in {"tools", "board", "page", "members", "limiter", "donations"}
  /\ Init /\ BoardInit /\ PagesInit /\ MembershipInit /\ LimiterInit /\ DonationsInit
  /\ at # "board" => script = CHOOSE s \in MCScripts : TRUE
  /\ at # "page" => page = CrewStack

PartsNext ==
  /\ UNCHANGED at
  /\ \/ at = "tools" /\ Next /\ UNCHANGED <<boardVars, productionVars, membershipVars, limiterVars, donationVars>>
     \/ at = "board" /\ BoardNext /\ UNCHANGED <<vars, productionVars, membershipVars, limiterVars, donationVars>>
     \/ at = "page" /\ PagesNext /\ UNCHANGED <<vars, boardVars, membershipVars, limiterVars, donationVars>>
     \/ at = "members" /\ MembershipNext /\ UNCHANGED <<vars, boardVars, productionVars, limiterVars, donationVars>>
     \/ at = "limiter" /\ LimiterNext /\ UNCHANGED <<vars, boardVars, productionVars, membershipVars, donationVars>>
     \/ at = "donations" /\ DonationsNext /\ UNCHANGED <<vars, boardVars, productionVars, membershipVars, limiterVars>>

PartsSpec == PartsInit /\ [][PartsNext]_partVars

-----------------------------------------------------------------------------
(* The parts' type invariants. *)
TypesOK == TypeOK /\ BoardTypeOK /\ PagesTypeOK /\ MembershipTypeOK /\ LimiterTypeOK /\ DonationsTypeOK

=============================================================================

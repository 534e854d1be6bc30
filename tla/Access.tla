-------------------------------- MODULE Access --------------------------------
(***************************************************************************)
(* The five small components that decide who may use what: organizations,  *)
(* sessions, staff, gateway keys with their limits, and the model list.    *)
(* They share no state, so a behaviour is one of a single component; which *)
(* one, the initial state says, and the others rest.                       *)
(***************************************************************************)
EXTENDS Organizations, Sessions, Staff, GatewayAccess, ModelCatalogue

VARIABLE part

allVars == <<vars, sessionsVars, staffVars, accessVars, catalogueVars, part>>

AllInit ==
  /\ Init /\ SessionsInit /\ StaffInit /\ AccessInit /\ CatalogueInit
  /\ part \in {"organizations", "sessions", "staff", "gateway", "catalogue"}

AllNext ==
  /\ UNCHANGED part
  /\ \/ /\ part = "organizations" /\ Next
        /\ UNCHANGED <<sessionsVars, staffVars, accessVars, catalogueVars>>
     \/ /\ part = "sessions" /\ SessionsNext
        /\ UNCHANGED <<vars, staffVars, accessVars, catalogueVars>>
     \/ /\ part = "staff" /\ StaffNext
        /\ UNCHANGED <<vars, sessionsVars, accessVars, catalogueVars>>
     \/ /\ part = "gateway" /\ AccessNext
        /\ UNCHANGED <<vars, sessionsVars, staffVars, catalogueVars>>
     \/ /\ part = "catalogue" /\ CatalogueNext
        /\ UNCHANGED <<vars, sessionsVars, staffVars, accessVars>>

AllSpec == AllInit /\ [][AllNext]_allVars

\* The type invariants of the five components.
AllTypesOK == TypeOK /\ SessionsTypeOK /\ StaffTypeOK /\ AccessTypeOK /\ CatalogueTypeOK
=============================================================================

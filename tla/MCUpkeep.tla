------------------------------ MODULE MCUpkeep ------------------------------
(* Small instances of the upkeep of stored data: Rekey, Branding, Rotation, *)
(* Telemetry.                                                               *)
(* They share no state: `part' says which of them a behaviour is about, so  *)
(* that their states add up instead of multiplying.                         *)
EXTENDS Rekey, Branding, Rotation, Telemetry, TLC

VARIABLE part

Parts == {"files", "brand", "keys", "count"}

Init ==
    /\ RekeyInit /\ BrandingInit /\ RotationInit /\ TelemetryInit /\ part \in Parts
    \* one initial state of the parts that do not move
    /\ part # "count" => env = "none"
    /\ part # "files" => \A f \in Files : ~att[f].sealed

Next ==
    /\ UNCHANGED part
    /\ \/ part = "files" /\ RekeyNext /\ UNCHANGED <<brandingVars, rotationVars, telemetryVars>>
       \/ part = "brand" /\ BrandingNext /\ UNCHANGED <<rekeyVars, rotationVars, telemetryVars>>
       \/ part = "keys" /\ RotationNext /\ UNCHANGED <<rekeyVars, brandingVars, telemetryVars>>
       \/ part = "count" /\ TelemetryNext /\ UNCHANGED <<rekeyVars, brandingVars, rotationVars>>

vars == <<rekeyVars, brandingVars, rotationVars, telemetryVars, part>>

Spec == Init /\ [][Next]_vars

TypeOK == RekeyTypeOK /\ BrandingTypeOK /\ RotationTypeOK /\ TelemetryTypeOK /\ part \in Parts

\* The cfg gives the actors of every part the same values, and so their objects.
Symmetry == Permutations(Jobs) \cup Permutations(Files)
=============================================================================

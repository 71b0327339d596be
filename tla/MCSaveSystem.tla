----------------------------- MODULE MCSaveSystem -----------------------------
(***************************************************************************)
(* Small instances of SaveSystem for TLC.                                  *)
(***************************************************************************)
EXTENDS SaveSystem

\* What may be on the console before this build first boots: nothing, a save
\* of the JSON format without custom data, or saves of this mod.
\* The save without custom data is of the other body type than a new game, and the
\* one of the mod has had its text speed changed.
VanillaImage  == [s \in Sections |-> IF s = "playerWork" THEN 1 ELSE Missing]
ModImage(v)   == [s \in Sections |-> CASE s = "main" -> v
                                       [] s = "playerWork" -> 1
                                       [] OTHER -> 0]

MCInitialDisk ==
  { [f \in Files |-> NoFile],
    [f \in Files |-> VanillaImage],
    [f \in Files |-> IF f = "Main" THEN ModImage(Re_Lease) ELSE NoFile] }

MainFlags == {<<TRUE, FALSE>>, <<TRUE, TRUE>>}
AllFlags  == MainFlags \cup {<<FALSE, TRUE>>}
AllFaults == {"delete", "create", "open", "write", "commit"}
NoCreateFault == AllFaults \ {"create"}
\* PlayerWork changes once in a session of the mod's save, or also in a migrated one.
MaxOfMod    == [s \in {"playerWork", "dex"} |-> IF s = "playerWork" THEN 3 ELSE 1]
MaxOfAll    == [s \in {"playerWork", "dex"} |-> IF s = "playerWork" THEN 5 ELSE 1]
TwoSections == {"playerWork", "dex"}
=============================================================================

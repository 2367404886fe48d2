-------------------------------- MODULE MCFat --------------------------------
(***************************************************************************)
(* Instance of the FAT16 modules for TLC.  The initial state chooses what   *)
(* is explored: calls on files, listings beside calls on empty files, the   *)
(* sectors that pass through the page, or names.                            *)
(***************************************************************************)
EXTENDS FatDir, FatNames, SectorBuffer, TLC

CONSTANTS n1, n2, h1, h2

VARIABLE explored
mcVars == <<vars, dirVars, bufVars, path, explored>>

MCName == {n1, n2}
MCHandle == {h1, h2}
MCImage == <<"label", "deleted">>
NoImage == <<>>
Symm == Permutations(Name) \cup Permutations(Handle)

MCInit ==
  /\ Init /\ DirInit /\ BufInit /\ NamesInit
  /\ explored \in {"calls", "listing", "sectors", "names"}

Calls == explored = "calls" /\ Next /\ UNCHANGED <<dirVars, bufVars, path, explored>>
Listing == explored = "listing" /\ DirNext /\ next' = next /\ UNCHANGED <<bufVars, path, explored>>
Sectors == explored = "sectors" /\ BufNext /\ UNCHANGED <<vars, dirVars, path, explored>>
Names == explored = "names" /\ NamesNext /\ UNCHANGED <<vars, dirVars, bufVars, explored>>

MCSpec == MCInit /\ [][Calls \/ Listing \/ Sectors \/ Names]_mcVars
=============================================================================

---------------------------- MODULE PrivateFiles ----------------------------
(***************************************************************************)
(* The directory of the Collector's private files (security_files.py): the  *)
(* atomic replacement of a file, the removal of what an interrupted         *)
(* replacement leaves, and what a crash or a power failure keeps.           *)
(*                                                                          *)
(* One process writes one file at a time.  What it changed in the directory *)
(* is visible at once, and certain to survive a power failure only after    *)
(* the directory was synchronized; until then the failure may leave the     *)
(* directory as it was after any of the changes since.                      *)
(***************************************************************************)
EXTENDS Integers

CONSTANTS
  Absent,      \* the content of a file that does not exist
  Torn,        \* the content of a file whose data were lost
  MaxFaults    \* bound on failures of the file system

Files == {"identity", "pairing"}

ASSUME ContentAssumption == Absent \notin Nat /\ Torn \notin Nat /\ Absent # Torn
ASSUME FaultAssumption == MaxFaults \in Nat

VARIABLES
  directory,   \* the files and the number of their temporaries, as seen now
  survivors,   \* the directories a power failure may leave
  write,       \* the replacement under way
  faults

files == <<directory, survivors, write, faults>>

Contents == Nat \cup {Absent, Torn}
Directories == [content : [Files -> Contents], temporaries : [Files -> Nat]]

NoWrite == [step |-> "none", file |-> "pairing", content |-> Absent]
EmptyDirectory ==
  [content |-> [f \in Files |-> Absent], temporaries |-> [f \in Files |-> 0]]

WithTemporaries(d, f, n) == [d EXCEPT !.temporaries[f] = n]
Replaced(d, f, c) ==
  [content |-> [d.content EXCEPT ![f] = c],
   temporaries |-> [d.temporaries EXCEPT ![f] = @ - 1]]

\* A change the system may write back at any time from now on.
Changes(d) == directory' = d /\ survivors' = survivors \cup {d}

\* The directory is synchronized.
Settled == UNCHANGED directory /\ survivors' = {directory}

-----------------------------------------------------------------------------
(* atomic_write_private                                                    *)

CreateTemporary(f, c) ==
  /\ write.step = "none"
  /\ write' = [step |-> "created", file |-> f, content |-> c]
  /\ Changes(WithTemporaries(directory, f, directory.temporaries[f] + 1))
  /\ UNCHANGED faults

WriteTemporary ==
  /\ write.step = "created"
  /\ write' = [write EXCEPT !.step = "written"]
  /\ UNCHANGED <<directory, survivors, faults>>

SyncTemporary ==
  /\ write.step = "written"
  /\ write' = [write EXCEPT !.step = "synced"]
  /\ UNCHANGED <<directory, survivors, faults>>

\* Mutated: the temporary replaces the file before its data are synchronized.
ReplaceUnsynced ==
  /\ write.step = "written"
  /\ write' = [write EXCEPT !.step = "replaced"]
  /\ directory' = Replaced(directory, write.file, write.content)
  /\ survivors' = survivors \cup {directory', Replaced(directory, write.file, Torn)}
  /\ UNCHANGED faults

Replace ==
  /\ write.step = "synced"
  /\ write' = [write EXCEPT !.step = "replaced"]
  /\ Changes(Replaced(directory, write.file, write.content))
  /\ UNCHANGED faults

\* Mutated: the directory is not synchronized.
ReplaceForgotten ==
  /\ write.step = "replaced"
  /\ write' = NoWrite
  /\ UNCHANGED <<directory, survivors, faults>>

SyncDirectory ==
  /\ write.step = "replaced"
  /\ write' = NoWrite
  /\ Settled
  /\ UNCHANGED faults

\* A step fails: the caller learns of it, and the temporary is removed unless
\* that fails too.  After the replacement the new content stays.
WriteFails(removed) ==
  /\ write.step # "none"
  /\ faults < MaxFaults
  /\ faults' = faults + 1
  /\ write' = NoWrite
  /\ IF write.step # "replaced" /\ removed
     THEN Changes(WithTemporaries(directory, write.file, directory.temporaries[write.file] - 1))
     ELSE UNCHANGED <<directory, survivors>>

-----------------------------------------------------------------------------
(* recover_pairing_temporaries                                             *)

\* Entries of the directory: files that exist, and temporaries.
Present(f) == IF directory.content[f] = Absent THEN 0 ELSE 1
Entries ==
  Present("identity") + Present("pairing")
  + directory.temporaries["identity"] + directory.temporaries["pairing"]

RemoveOrphan ==
  /\ directory.temporaries["pairing"] > 0
  /\ Changes(WithTemporaries(directory, "pairing", directory.temporaries["pairing"] - 1))
  /\ UNCHANGED <<write, faults>>

-----------------------------------------------------------------------------
(* Crashes                                                                 *)

\* The process ends: what it changed stays visible.
ProcessEnds == write' = NoWrite /\ UNCHANGED <<directory, survivors, faults>>

PowerFails ==
  /\ write' = NoWrite
  /\ directory' \in survivors
  /\ survivors' = {directory'}
  /\ UNCHANGED faults

FilesInit ==
  /\ directory = EmptyDirectory
  /\ survivors = {EmptyDirectory}
  /\ write = NoWrite
  /\ faults = 0

=============================================================================

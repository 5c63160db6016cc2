--------------------------- MODULE CollectorStart ---------------------------
(***************************************************************************)
(* The start of a managed Collector (load_runtime_configuration in          *)
(* runtime_config.py): its identity is loaded or generated once             *)
(* (managed_identity.py), orphans of interrupted pairing writes are         *)
(* removed, and it serves, saving its pairing state.  Any step may be the   *)
(* last of the process, or of the machine; a start that is refused is tried *)
(* again by the Supervisor.                                                 *)
(*                                                                          *)
(* Identities and pairing states are numbered in the order they are made.   *)
(***************************************************************************)
EXTENDS PrivateFiles

CONSTANTS
  MAX_RECOVERY_ENTRIES,   \* entries of the directory a start looks at
  MaxSaves,               \* bound on saves of the pairing state
  MaxCrashes              \* bound on crashes and power failures

ASSUME LimitAssumption == MAX_RECOVERY_ENTRIES \in Nat /\ MaxSaves \in Nat /\ MaxCrashes \in Nat

VARIABLES
  mode,        \* where the process is
  identity,    \* the identity it has loaded
  generated,   \* identities generated so far
  saves,       \* pairing states made so far
  answered,    \* the last save that was answered, and under which identity
  crashes

startVars == <<mode, identity, generated, saves, answered, crashes>>
vars == <<files, startVars>>

Modes == {"down", "generating", "recovering", "cleaning", "serving"}
NothingAnswered == [version |-> 0, identity |-> Absent]

\* Evidence of an interrupted generation is kept and refused.
InterruptedGenerationExists == directory.temporaries["identity"] > 0

\* An identity that was written whole is one that validates.
Loadable == directory.content["identity"] \in Nat

\* Keys, certificates and a meter id like none before.
NewIdentity == generated + 1

TooManyEntries == Entries > MAX_RECOVERY_ENTRIES

-----------------------------------------------------------------------------
(* Start                                                                   *)

\* Mutated: any temporary is taken for an interrupted generation.
LoadIdentityAlone ==
  /\ mode = "down"
  /\ \A f \in Files : directory.temporaries[f] = 0
  /\ Loadable
  /\ identity' = directory.content["identity"]
  /\ mode' = "recovering"
  /\ UNCHANGED <<files, generated, saves, answered, crashes>>

\* The identity file exists, is whole and is loaded.
LoadIdentity ==
  /\ mode = "down"
  /\ ~InterruptedGenerationExists
  /\ Loadable
  /\ identity' = directory.content["identity"]
  /\ mode' = "recovering"
  /\ UNCHANGED <<files, generated, saves, answered, crashes>>

\* There is none: a new one is generated and written.
GenerateIdentity ==
  /\ mode = "down"
  /\ ~InterruptedGenerationExists
  /\ directory.content["identity"] = Absent
  /\ CreateTemporary("identity", NewIdentity)
  /\ generated' = NewIdentity
  /\ mode' = "generating"
  /\ UNCHANGED <<identity, saves, answered, crashes>>

\* The identity was written, and is loaded from its file.
IdentityWritten ==
  /\ mode = "generating"
  /\ SyncDirectory
  /\ identity' = directory.content["identity"]
  /\ mode' = "recovering"
  /\ UNCHANGED <<generated, saves, answered, crashes>>

GenerationFails ==
  /\ mode = "generating"
  /\ \E removed \in BOOLEAN : WriteFails(removed)
  /\ mode' = "down"
  /\ UNCHANGED <<identity, generated, saves, answered, crashes>>

\* Orphans of the pairing state are removed one by one.
Recover ==
  /\ mode \in {"recovering", "cleaning"}
  /\ mode = "recovering" => ~TooManyEntries
  /\ RemoveOrphan
  /\ mode' = "cleaning"
  /\ UNCHANGED <<identity, generated, saves, answered, crashes>>

\* All were removed; the directory is synchronized if there were any.
Recovered ==
  /\ mode \in {"recovering", "cleaning"}
  /\ mode = "recovering" => ~TooManyEntries
  /\ directory.temporaries["pairing"] = 0
  /\ IF mode = "cleaning" THEN Settled ELSE UNCHANGED <<directory, survivors>>
  /\ mode' = "serving"
  /\ UNCHANGED <<write, faults, identity, generated, saves, answered, crashes>>

\* A directory with too many entries, or an orphan that cannot be removed,
\* ends the start.
RecoveryRefused ==
  /\ mode = "recovering"
  /\ TooManyEntries
  /\ mode' = "down"
  /\ UNCHANGED <<files, identity, generated, saves, answered, crashes>>

RecoveryFails ==
  /\ mode \in {"recovering", "cleaning"}
  /\ faults < MaxFaults
  /\ faults' = faults + 1
  /\ mode' = "down"
  /\ UNCHANGED <<directory, survivors, write, identity, generated, saves, answered, crashes>>

-----------------------------------------------------------------------------
(* Service                                                                 *)

\* A change of the pairing state is written; its caller waits.
Save ==
  /\ mode = "serving"
  /\ saves < MaxSaves
  /\ CreateTemporary("pairing", saves + 1)
  /\ saves' = saves + 1
  /\ UNCHANGED <<mode, identity, generated, answered, crashes>>

SaveAnswered ==
  /\ mode = "serving"
  /\ SyncDirectory
  /\ answered' = [version |-> write.content, identity |-> identity]
  /\ UNCHANGED <<mode, identity, generated, saves, crashes>>

SaveFails ==
  /\ mode = "serving"
  /\ \E removed \in BOOLEAN : WriteFails(removed)
  /\ UNCHANGED startVars

WriteStep == (WriteTemporary \/ SyncTemporary \/ Replace) /\ UNCHANGED startVars

-----------------------------------------------------------------------------
(* The process                                                             *)

Dies ==
  /\ mode # "down"
  /\ crashes < MaxCrashes
  /\ crashes' = crashes + 1
  /\ mode' = "down"
  /\ UNCHANGED <<identity, generated, saves, answered>>

Crash == Dies /\ ProcessEnds
PowerFailure == Dies /\ PowerFails

StartInit ==
  /\ FilesInit
  /\ mode = "down"
  /\ identity = Absent
  /\ generated = 0
  /\ saves = 0
  /\ answered = NothingAnswered
  /\ crashes = 0

StartStep ==
  \/ LoadIdentity \/ GenerateIdentity \/ IdentityWritten
  \/ Recover \/ Recovered \/ RecoveryRefused
  \/ mode = "generating" /\ WriteStep

StartNext ==
  \/ StartStep
  \/ GenerationFails \/ RecoveryFails
  \/ Save \/ SaveAnswered \/ SaveFails
  \/ mode = "serving" /\ WriteStep
  \/ Crash \/ PowerFailure

StartSpec == StartInit /\ [][StartNext]_vars

\* The Supervisor restarts a Collector that ended, and its start goes on.
FairStartSpec == StartSpec /\ WF_vars(StartStep)

-----------------------------------------------------------------------------
(* Properties                                                              *)

\* Every variable has its type.
StartTypeOK ==
  /\ directory \in Directories
  /\ survivors \subseteq Directories
  /\ write \in [step : {"none", "created", "written", "synced", "replaced"},
                file : Files, content : Contents]
  /\ faults \in 0..MaxFaults
  /\ mode \in Modes
  /\ identity \in Contents
  /\ generated \in Nat
  /\ saves \in 0..MaxSaves
  /\ answered \in [version : 0..MaxSaves, identity : Contents]
  /\ crashes \in 0..MaxCrashes

Possible == survivors \cup {directory}

\* A pairing state that was answered is never lost or torn: every directory a
\* crash or a power failure may leave now holds it, or one made after it.
AnsweredStateKept ==
  answered.version # 0 =>
    \A d \in Possible :
      d.content["pairing"] \in Nat /\ d.content["pairing"] >= answered.version

\* Home Assistant trusts the identity it was paired under: once a pairing
\* state was answered, every directory that may be left holds that identity,
\* and no other is ever loaded.
PairedIdentityKept ==
  answered.version # 0 =>
    /\ \A d \in Possible : d.content["identity"] = answered.identity
    /\ mode \in {"recovering", "cleaning", "serving"} => identity = answered.identity

\* What pairing relies on: its answered state and its identity.
PairingSurvives == AnsweredStateKept /\ PairedIdentityKept

\* The Collector always serves again after it went down, unless a generation
\* was interrupted or the directory holds more than a start looks at.
ServesAgain ==
  mode = "down" ~> mode = "serving" \/ InterruptedGenerationExists \/ TooManyEntries

=============================================================================

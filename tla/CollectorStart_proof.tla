------------------------ MODULE CollectorStart_proof ------------------------
(***************************************************************************)
(* Proofs about CollectorStart: what was answered survives every crash and  *)
(* every power failure, for any number of saves, failures and crashes.      *)
(*                                                                          *)
(* What the promise rests on is where a write stands: a temporary exists    *)
(* until it replaces its file, the file then has its content, and only a    *)
(* synchronized directory is answered for.                                  *)
(***************************************************************************)
EXTENDS CollectorStart, TLAPS

Loaded == mode \in {"recovering", "cleaning", "serving"}

\* The write under way belongs to the mode, and the directory shows how far
\* it is.
WriteInPlace ==
  write.step # "none" =>
    /\ write.content \in Nat
    /\ write.step # "replaced" => directory.temporaries[write.file] > 0
    /\ write.step = "replaced" => directory.content[write.file] = write.content
    /\ \/ mode = "generating" /\ write.file = "identity"
       \/ mode = "serving" /\ write.file = "pairing" /\ write.content = saves

\* A loaded identity is the one in its file.
LoadedFromFile == Loaded => identity \in Nat /\ identity = directory.content["identity"]

\* Whoever was answered had an identity and a pairing state that was made;
\* nobody is answered before the identity exists.
AnsweredHadIdentity ==
  /\ answered.version <= saves
  /\ answered.version # 0 => answered.identity \in Nat /\ mode # "generating"

StartInv ==
  /\ StartTypeOK
  /\ directory \in survivors
  /\ WriteInPlace
  /\ LoadedFromFile
  /\ AnsweredHadIdentity
  /\ AnsweredStateKept
  /\ PairedIdentityKept

-----------------------------------------------------------------------------
(* Directories                                                             *)

\* Creating or deleting temporaries changes no file.
LEMMA TemporariesTyped ==
  ASSUME NEW d \in Directories, NEW f \in Files, NEW n \in Nat
  PROVE  /\ WithTemporaries(d, f, n) \in Directories
         /\ WithTemporaries(d, f, n).content = d.content
         /\ WithTemporaries(d, f, n).temporaries[f] = n
         /\ \A g \in Files : g # f => WithTemporaries(d, f, n).temporaries[g] = d.temporaries[g]
  BY DEF Directories, WithTemporaries

\* A replacement changes one file and uses up one temporary.
LEMMA ReplacedTyped ==
  ASSUME NEW d \in Directories, NEW f \in Files, NEW c \in Contents, d.temporaries[f] > 0
  PROVE  /\ Replaced(d, f, c) \in Directories
         /\ Replaced(d, f, c).content[f] = c
         /\ \A g \in Files : g # f => Replaced(d, f, c).content[g] = d.content[g]
         /\ Replaced(d, f, c).temporaries[f] = d.temporaries[f] - 1
  BY DEF Directories, Replaced

\* A write that fails gives up its place and changes no file.
LEMMA FailureKeepsContents ==
  ASSUME StartTypeOK, WriteInPlace, directory \in survivors,
         \E removed \in BOOLEAN : WriteFails(removed)
  PROVE  /\ directory' \in Directories /\ survivors' \subseteq Directories
         /\ directory' \in survivors' /\ directory'.content = directory.content
         /\ \A d \in survivors' : d \in survivors \/ d.content = directory.content
         /\ write' = NoWrite /\ NoWrite.step = "none"
         /\ write' \in [step : {"none", "created", "written", "synced", "replaced"},
                        file : Files, content : Contents]
         /\ faults' \in 0..MaxFaults
<1> PICK removed \in BOOLEAN : WriteFails(removed)
  OBVIOUS
<1> DEFINE n == directory.temporaries[write.file] - 1
           d == WithTemporaries(directory, write.file, n)
<1>1. /\ write' = NoWrite /\ faults' \in 0..MaxFaults /\ NoWrite.step = "none"
      /\ write' \in [step : {"none", "created", "written", "synced", "replaced"},
                     file : Files, content : Contents]
  BY FaultAssumption DEF WriteFails, NoWrite, StartTypeOK, Files, Contents
<1>2. CASE write.step # "replaced" /\ removed
  <2>1. write.file \in Files /\ n \in Nat /\ directory \in Directories
    BY <1>2 DEF WriteFails, WriteInPlace, StartTypeOK, Directories
  <2>2. d \in Directories /\ d.content = directory.content
    BY <2>1, TemporariesTyped
  <2>3. directory' = d /\ survivors' = survivors \cup {d}
    BY <1>2 DEF WriteFails, Changes
  <2> QED
    BY <1>1, <2>2, <2>3 DEF StartTypeOK
<1>3. CASE ~(write.step # "replaced" /\ removed)
  BY <1>1, <1>3 DEF WriteFails, StartTypeOK
<1> QED
  BY <1>2, <1>3

-----------------------------------------------------------------------------
(* The invariant                                                           *)

\* An empty directory before the first start.
THEOREM StartInitially == StartInit => StartInv
  BY ContentAssumption, FaultAssumption, LimitAssumption
  DEF StartInit, FilesInit, StartInv, StartTypeOK, WriteInPlace, LoadedFromFile, Loaded,
      AnsweredHadIdentity, AnsweredStateKept, PairedIdentityKept, Directories, Contents,
      EmptyDirectory, NoWrite, NothingAnswered, Modes, Files

\* One case per step of a start, of a write and of what ends the process.
LEMMA StepKeepsInv ==
  ASSUME StartInv, [StartNext]_vars
  PROVE  StartInv'
<1> USE ContentAssumption, FaultAssumption, LimitAssumption DEF StartInv
<1>1. CASE LoadIdentity
  BY <1>1 DEF LoadIdentity, Loadable, files, StartTypeOK, WriteInPlace, LoadedFromFile, Loaded,
      AnsweredHadIdentity, AnsweredStateKept, PairedIdentityKept, Possible, Modes, Contents, Directories
<1>2. CASE GenerateIdentity
  <2> DEFINE n == directory.temporaries["identity"] + 1
             d == WithTemporaries(directory, "identity", n)
  <2>1. /\ directory \in Directories /\ d \in Directories /\ d.content = directory.content
        /\ d.temporaries["identity"] > 0
        /\ directory' = d /\ survivors' = survivors \cup {d}
    <3>1. directory \in Directories /\ "identity" \in Files /\ n \in Nat /\ n > 0
      BY DEF StartTypeOK, Directories, Files
    <3>2. d \in Directories /\ d.content = directory.content /\ d.temporaries["identity"] = n
      BY <3>1, TemporariesTyped
    <3>3. directory' = d /\ survivors' = survivors \cup {d}
      BY <1>2 DEF GenerateIdentity, CreateTemporary, Changes
    <3> QED
      BY <3>1, <3>2, <3>3
  <2>2. write' = [step |-> "created", file |-> "identity", content |-> generated + 1]
    BY <1>2 DEF GenerateIdentity, CreateTemporary, NewIdentity
  <2>3. answered.version = 0
    BY <1>2 DEF GenerateIdentity, AnsweredHadIdentity, PairedIdentityKept, Possible, StartTypeOK
  <2> HIDE DEF d
  <2>4. StartTypeOK'
    BY <1>2, <2>1, <2>2
    DEF GenerateIdentity, CreateTemporary, NewIdentity, StartTypeOK, Contents, Modes, Files
  <2> QED
    BY <1>2, <2>1, <2>2, <2>3, <2>4
    DEF GenerateIdentity, StartTypeOK, WriteInPlace, LoadedFromFile, Loaded, AnsweredHadIdentity,
        AnsweredStateKept, PairedIdentityKept
<1>3. CASE IdentityWritten
  BY <1>3 DEF IdentityWritten, SyncDirectory, Settled, NoWrite, StartTypeOK, WriteInPlace, LoadedFromFile, Loaded,
      AnsweredHadIdentity, AnsweredStateKept, PairedIdentityKept, Possible, Modes, Contents, Directories, Files
<1>4. CASE Recover
  <2> DEFINE d == WithTemporaries(directory, "pairing", directory.temporaries["pairing"] - 1)
  <2>1. /\ d \in Directories /\ d.content = directory.content
        /\ directory' = d /\ survivors' = survivors \cup {d}
    BY <1>4, TemporariesTyped DEF Recover, RemoveOrphan, Changes, StartTypeOK, Directories, Files
  <2>2. write.step = "none" /\ UNCHANGED <<write, faults>>
    BY <1>4 DEF Recover, RemoveOrphan, WriteInPlace
  <2> HIDE DEF d
  <2>3. StartTypeOK'
    BY <1>4, <2>1, <2>2 DEF Recover, StartTypeOK, Modes
  <2> QED
    BY <1>4, <2>1, <2>2, <2>3
    DEF Recover, WriteInPlace, LoadedFromFile, Loaded, AnsweredHadIdentity, AnsweredStateKept,
        PairedIdentityKept, Possible
<1>5. CASE Recovered
  BY <1>5 DEF Recovered, Settled, StartTypeOK, WriteInPlace, LoadedFromFile, Loaded,
      AnsweredHadIdentity, AnsweredStateKept, PairedIdentityKept, Possible, Modes
<1>6. CASE RecoveryRefused
  BY <1>6 DEF RecoveryRefused, files, StartTypeOK, WriteInPlace, LoadedFromFile, Loaded,
      AnsweredHadIdentity, AnsweredStateKept, PairedIdentityKept, Possible, Modes
<1>7. CASE WriteTemporary /\ UNCHANGED startVars
  BY <1>7
  DEF WriteTemporary, startVars, StartTypeOK, WriteInPlace, LoadedFromFile, Loaded, AnsweredHadIdentity,
        AnsweredStateKept, PairedIdentityKept, Possible
<1>8. CASE SyncTemporary /\ UNCHANGED startVars
  BY <1>8
  DEF SyncTemporary, startVars, StartTypeOK, WriteInPlace, LoadedFromFile, Loaded, AnsweredHadIdentity,
        AnsweredStateKept, PairedIdentityKept, Possible
<1>9. CASE Replace /\ UNCHANGED startVars
  <2> DEFINE d == Replaced(directory, write.file, write.content)
  <2>1. /\ write.file \in Files /\ write.content \in Contents
        /\ directory \in Directories /\ directory.temporaries[write.file] > 0
    BY <1>9 DEF Replace, StartTypeOK, WriteInPlace
  <2>2. /\ d \in Directories /\ d.content[write.file] = write.content
        /\ \A g \in Files : g # write.file => d.content[g] = directory.content[g]
        /\ directory' = d /\ survivors' = survivors \cup {d}
    BY <1>9, <2>1, ReplacedTyped DEF Replace, Changes
  <2>3. write' = [write EXCEPT !.step = "replaced"] /\ write.step = "synced"
    BY <1>9 DEF Replace
  <2> HIDE DEF d
  <2>4. StartTypeOK'
    BY <1>9, <2>2, <2>3 DEF Replace, startVars, StartTypeOK
  <2>5. WriteInPlace' /\ LoadedFromFile' /\ AnsweredHadIdentity'
    BY <1>9, <2>1, <2>2, <2>3
    DEF startVars, StartTypeOK, WriteInPlace, LoadedFromFile, Loaded, AnsweredHadIdentity, Files
  <2>6. AnsweredStateKept'
    BY <1>9, <2>1, <2>2, <2>3
    DEF startVars, StartTypeOK, WriteInPlace, AnsweredHadIdentity, AnsweredStateKept, Possible, Files
  <2>7. PairedIdentityKept'
    BY <1>9, <2>1, <2>2, <2>3
    DEF startVars, StartTypeOK, WriteInPlace, AnsweredHadIdentity, PairedIdentityKept, Possible, Files
  <2> QED
    BY <2>2, <2>4, <2>5, <2>6, <2>7
<1>10. CASE GenerationFails
  <2>1. UNCHANGED <<identity, generated, saves, answered, crashes>> /\ mode = "generating" /\ mode' = "down"
    BY <1>10 DEF GenerationFails
  <2>2. \E removed \in BOOLEAN : WriteFails(removed)
    BY <1>10 DEF GenerationFails
  <2> QED
    BY <2>1, <2>2, FailureKeepsContents
    DEF StartTypeOK, WriteInPlace, LoadedFromFile, Loaded, AnsweredHadIdentity,
        AnsweredStateKept, PairedIdentityKept, Possible, Modes
<1>11. CASE RecoveryFails
  BY <1>11 DEF RecoveryFails, StartTypeOK, WriteInPlace, LoadedFromFile, Loaded,
      AnsweredHadIdentity, AnsweredStateKept, PairedIdentityKept, Possible, Modes
<1>12. CASE Save
  <2> DEFINE n == directory.temporaries["pairing"] + 1
             d == WithTemporaries(directory, "pairing", n)
  <2>1. /\ d \in Directories /\ d.content = directory.content
        /\ d.temporaries["pairing"] > 0
        /\ directory' = d /\ survivors' = survivors \cup {d}
    <3>1. directory \in Directories /\ "pairing" \in Files /\ n \in Nat /\ n > 0
      BY DEF StartTypeOK, Directories, Files
    <3>2. d \in Directories /\ d.content = directory.content /\ d.temporaries["pairing"] = n
      BY <3>1, TemporariesTyped
    <3>3. directory' = d /\ survivors' = survivors \cup {d}
      BY <1>12 DEF Save, CreateTemporary, Changes
    <3> QED
      BY <3>1, <3>2, <3>3
  <2>2. write' = [step |-> "created", file |-> "pairing", content |-> saves + 1]
    BY <1>12 DEF Save, CreateTemporary
  <2> HIDE DEF d
  <2>3. StartTypeOK'
    BY <1>12, <2>1, <2>2 DEF Save, CreateTemporary, StartTypeOK, Contents, Files
  <2> QED
    BY <1>12, <2>1, <2>2, <2>3
    DEF Save, StartTypeOK, WriteInPlace, LoadedFromFile, Loaded, AnsweredHadIdentity,
        AnsweredStateKept, PairedIdentityKept, Possible
<1>13. CASE SaveAnswered
  BY <1>13
  DEF SaveAnswered, SyncDirectory, Settled, NoWrite, Contents, Files, StartTypeOK, WriteInPlace, LoadedFromFile, Loaded, AnsweredHadIdentity,
        AnsweredStateKept, PairedIdentityKept, Possible
<1>14. CASE SaveFails
  <2>1. UNCHANGED startVars /\ \E removed \in BOOLEAN : WriteFails(removed)
    BY <1>14 DEF SaveFails
  <2> QED
    BY <2>1, FailureKeepsContents
    DEF startVars, StartTypeOK, WriteInPlace, LoadedFromFile, Loaded, AnsweredHadIdentity,
        AnsweredStateKept, PairedIdentityKept, Possible
<1>15. CASE Crash
  BY <1>15
  DEF Crash, Dies, ProcessEnds, NoWrite, Contents, Files, Modes, StartTypeOK, WriteInPlace, LoadedFromFile, Loaded, AnsweredHadIdentity,
        AnsweredStateKept, PairedIdentityKept, Possible
<1>16. CASE PowerFailure
  BY <1>16
  DEF PowerFailure, Dies, PowerFails, NoWrite, Contents, Files, Modes, StartTypeOK, WriteInPlace, LoadedFromFile, Loaded, AnsweredHadIdentity,
        AnsweredStateKept, PairedIdentityKept, Possible
<1>17. CASE UNCHANGED vars
  BY <1>17 DEF vars, files, startVars, StartTypeOK, WriteInPlace, LoadedFromFile, Loaded,
      AnsweredHadIdentity, AnsweredStateKept, PairedIdentityKept, Possible
<1> QED
  BY <1>1, <1>2, <1>3, <1>4, <1>5, <1>6, <1>7, <1>8, <1>9, <1>10, <1>11, <1>12, <1>13,
     <1>14, <1>15, <1>16, <1>17 DEF StartNext, StartStep, WriteStep

\* The invariant, whatever fails and whenever the process ends.
THEOREM StartInvHolds == StartSpec => []StartInv
<1>1. StartInv /\ [StartNext]_vars => StartInv'
  BY StepKeepsInv
<1> QED
  BY StartInitially, <1>1, PTL DEF StartSpec

-----------------------------------------------------------------------------
(* What follows                                                            *)

\* The directory, the write and the process keep their types.
THEOREM StartTypeCorrect == StartSpec => []StartTypeOK
<1>1. StartInv => StartTypeOK
  BY DEF StartInv
<1> QED
  BY StartInvHolds, <1>1, PTL

\* An answered claim, activation or finalize is never undone by a crash or a
\* power failure, and the identity it was made under is the only one loaded
\* from then on.
THEOREM PairingSurvivesHolds == StartSpec => []PairingSurvives
<1>1. StartInv => PairingSurvives
  BY DEF StartInv, PairingSurvives
<1> QED
  BY StartInvHolds, <1>1, PTL

=============================================================================

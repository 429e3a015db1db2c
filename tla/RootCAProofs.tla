---------------------------- MODULE RootCAProofs ----------------------------
(***************************************************************************)
(* What the processes that share the two root files guarantee for any      *)
(* number of concurrent generates and of roots, wherever one is cut short. *)
(***************************************************************************)
EXTENDS RootCA, TLAPS

Types ==
    /\ file \in [File -> Root \cup {Absent, Torn}]
    /\ stage \in [Generators -> {"idle", "new", "open", "write"}]
    /\ which \in [Generators -> File]
    /\ force \in [Generators -> BOOLEAN]
    /\ root \in [Generators -> Root \cup {Absent}]
    /\ made \in Nat
    /\ proxy \in {"down", "loadKey", "running"}
    /\ loaded \in [File -> Root \cup {Absent}]
    /\ admin \in {"idle", "copied", "removed"}
    /\ since \in [Generators -> SUBSET File]
    /\ alone \in [Generators -> BOOLEAN]
    /\ mixed \in BOOLEAN /\ calm \in BOOLEAN /\ removed \in BOOLEAN

(* A generate that writes has a root, and the file it opened is there.     *)
HasRoot ==
    \A p \in Generators :
        /\ stage[p] \in {"open", "write"} => root[p] \in Root
        /\ stage[p] = "write" => exists(which[p])

(* Without -force, a file that exists and that this generate did not open  *)
(* itself was opened by another one since its check.                       *)
Unforced ==
    \A p \in Generators : ~force[p] =>
        /\ stage[p] = "new" => \A f \in File : exists(f) => f \in since[p]
        /\ stage[p] = "open" /\ which[p] = "cert" /\ exists("cert") => "cert" \in since[p]
        /\ stage[p] = "open" /\ exists("key") => "key" \in since[p]
        /\ stage[p] = "write" /\ which[p] = "cert" /\ exists("key") => "key" \in since[p]

Quiet == ~mixed /\ \A p \in Generators : ~Saving(p)

(* A save that is alone has no other beside it and the certificate that it *)
(* wrote; when none is under way and the last one was alone the pair is    *)
(* one root's, and that is what a calm LoadRoot reads.                     *)
Alone ==
    /\ \A p \in Generators : alone[p] /\ Saving(p) =>
        /\ \A q \in Generators \ {p} : ~Saving(q)
        /\ which[p] = "key" => file["cert"] = root[p]
    /\ Quiet => file["cert"] = file["key"]
    /\ calm => Quiet
    /\ calm /\ proxy = "loadKey" => loaded["cert"] = file["cert"]
    /\ PairMatches

(* Only an install that is under way can bring a root back, and an         *)
(* uninstall that refreshes the bundle has removed the file before.        *)
Removal ==
    /\ removed => trusted = {} /\ admin # "copied"
    /\ admin = "removed" => dest = Absent

IInv == Types /\ HasRoot /\ Unforced /\ Alone /\ Removal

LEMMA InitEstablishes == Init => IInv
<1> SUFFICES ASSUME Init PROVE IInv
    OBVIOUS
<1>1. Types
      BY DEF Init, Types, File
<1>2. HasRoot /\ Unforced /\ Removal
      BY DEF Init, HasRoot, Unforced, Removal
<1>3. Alone
      BY DEF Init, Alone, Quiet, Saving, PairMatches, File
<1> QED
      BY <1>1, <1>2, <1>3 DEF IInv

(* runCAGenerate: a check without -force passes only where both files are  *)
(* absent.                                                                 *)
LEMMA StepCheck ==
    ASSUME IInv, NEW p \in Generators, NEW f \in BOOLEAN, Check(p, f)
    PROVE  IInv'
<1> USE RootAssumption DEF IInv, File, Root, Absent, Torn
<1>1. Types'
      BY DEF Check, MayGenerate, proxyVars, adminVars, Types
<1>2. HasRoot'
      BY DEF Check, MayGenerate, proxyVars, adminVars, Types, HasRoot, exists
<1>3. Unforced'
      BY DEF Check, MayGenerate, proxyVars, adminVars, Types, HasRoot, Unforced, exists
<1>4. Alone'
      BY DEF Check, MayGenerate, proxyVars, adminVars, Types, HasRoot, Alone, Quiet, Saving,
         PairMatches
<1>5. Removal'
      BY DEF Check, MayGenerate, proxyVars, adminVars, Removal
<1> QED
      BY <1>1, <1>2, <1>3, <1>4, <1>5

LEMMA StepNewRoot ==
    ASSUME IInv, NEW p \in Generators, NewRoot(p)
    PROVE  IInv'
<1> USE RootAssumption DEF IInv, File, Root, Absent, Torn
<1>1. Types'
      BY DEF NewRoot, proxyVars, adminVars, Types
<1>2. HasRoot'
      BY DEF NewRoot, proxyVars, adminVars, Types, HasRoot, exists
<1>3. Unforced'
      BY DEF NewRoot, proxyVars, adminVars, Types, HasRoot, Unforced, exists
<1>4. Alone'
      BY DEF NewRoot, proxyVars, adminVars, Types, HasRoot, Alone, Quiet, Saving, PairMatches
<1>5. Removal'
      BY DEF NewRoot, proxyVars, adminVars, Removal
<1> QED
      BY <1>1, <1>2, <1>3, <1>4, <1>5

(* An open is seen by every generate past its check and ends its solitude. *)
LEMMA StepOpen ==
    ASSUME IInv, NEW p \in Generators, Open(p)
    PROVE  IInv'
<1> USE RootAssumption DEF IInv, File, Root, Absent, Torn
<1>1. Types'
      BY DEF Open, StillAlone, proxyVars, adminVars, Types
<1>2. HasRoot'
      BY DEF Open, StillAlone, proxyVars, adminVars, Types, HasRoot, exists
<1>3. Unforced'
      BY DEF Open, StillAlone, proxyVars, adminVars, Types, HasRoot, Unforced, exists
<1>4. Alone'
      BY DEF Open, StillAlone, proxyVars, adminVars, Types, HasRoot, Alone, Quiet, Saving,
         PairMatches
<1>5. Removal'
      BY DEF Open, StillAlone, proxyVars, adminVars, Removal
<1> QED
      BY <1>1, <1>2, <1>3, <1>4, <1>5

LEMMA StepWriteCert ==
    ASSUME IInv, NEW p \in Generators, WriteCert(p)
    PROVE  IInv'
<1> USE RootAssumption DEF IInv, File, Root, Absent, Torn
<1>1. Types'
      BY DEF WriteCert, Written, proxyVars, adminVars, Types
<1>2. HasRoot'
      BY DEF WriteCert, Written, proxyVars, adminVars, Types, HasRoot, exists
<1>3. Unforced'
      BY DEF WriteCert, Written, proxyVars, adminVars, Types, HasRoot, Unforced, exists
<1>4. Alone'
      BY DEF WriteCert, Written, proxyVars, adminVars, Types, HasRoot, Alone, Quiet, Saving,
         PairMatches
<1>5. Removal'
      BY DEF WriteCert, Written, proxyVars, adminVars, Removal
<1> QED
      BY <1>1, <1>2, <1>3, <1>4, <1>5

(* The key completes a pair only for a save that was alone.                *)
LEMMA StepWriteKey ==
    ASSUME IInv, NEW p \in Generators, WriteKey(p)
    PROVE  IInv'
<1> USE RootAssumption DEF IInv, File, Root, Absent, Torn
<1>1. Types'
      BY DEF WriteKey, Written, Exit, proxyVars, adminVars, Types
<1>2. HasRoot'
      BY DEF WriteKey, Written, Exit, proxyVars, adminVars, Types, HasRoot, exists
<1>3. Unforced'
      BY DEF WriteKey, Written, Exit, proxyVars, adminVars, Types, HasRoot, Unforced, exists
<1>4. Alone'
      BY ZenonT(30) DEF WriteKey, Written, Exit, proxyVars, adminVars, Types, HasRoot, Alone, Quiet,
         Saving, PairMatches
<1>5. Removal'
      BY DEF WriteKey, Written, Exit, proxyVars, adminVars, Removal
<1> QED
      BY <1>1, <1>2, <1>3, <1>4, <1>5

(* A save that is cut short leaves mixed behind.                           *)
LEMMA StepAbandon ==
    ASSUME IInv, NEW p \in Generators, Abandon(p)
    PROVE  IInv'
<1> USE RootAssumption DEF IInv, File, Root, Absent, Torn
<1>1. Types'
      BY DEF Abandon, Exit, proxyVars, adminVars, Types
<1>2. HasRoot'
      BY DEF Abandon, Exit, proxyVars, adminVars, Types, HasRoot, exists
<1>3. Unforced'
      BY DEF Abandon, Exit, proxyVars, adminVars, Types, HasRoot, Unforced, exists
<1>4. Alone'
      BY DEF Abandon, Exit, proxyVars, adminVars, Types, HasRoot, Alone, Quiet, Saving,
         PairMatches
<1>5. Removal'
      BY DEF Abandon, Exit, proxyVars, adminVars, Removal
<1> QED
      BY <1>1, <1>2, <1>3, <1>4, <1>5

(* LoadRoot only reads the files.                                          *)
LEMMA StepProxy == ASSUME IInv, LoadCert \/ LoadKey \/ Stop PROVE IInv'
<1> USE DEF IInv, LoadCert, LoadKey, Stop, files, adminVars
<1>1. Types'
      BY DEF Types, Parses, File
<1>2. HasRoot' /\ Unforced' /\ Removal'
      BY DEF HasRoot, Unforced, Removal, exists
<1>3. Alone'
      BY DEF Types, Alone, Quiet, Saving, PairMatches, File
<1> QED
      BY <1>1, <1>2, <1>3

(* Neither does the installer write them.                                  *)
LEMMA StepAdmin == ASSUME IInv, Install \/ Uninstall PROVE IInv'
<1> USE DEF IInv, Install, Uninstall, InstallCopy, InstallRefresh, UninstallRemove,
            UninstallRefresh, Refreshed, RefreshFails, files, proxyVars
<1>1. Types'
      BY DEF Types
<1>2. HasRoot' /\ Unforced' /\ Removal'
      BY RootAssumption DEF Types, HasRoot, Unforced, Removal, exists, Root, Absent
<1>3. /\ file' = file /\ stage' = stage /\ which' = which /\ root' = root /\ alone' = alone
      /\ mixed' = mixed /\ proxy' = proxy /\ loaded' = loaded /\ calm' = calm
      OBVIOUS
<1>4. Alone'
      BY <1>3 DEF Alone, Quiet, Saving, PairMatches
<1> QED
      BY <1>1, <1>2, <1>4

LEMMA StepPreserves == IInv /\ [Next]_vars => IInv'
<1> SUFFICES ASSUME IInv, [Next]_vars PROVE IInv'
    OBVIOUS
<1>1. ASSUME NEW p \in Generators, Generate(p) PROVE IInv'
      BY <1>1, StepCheck, StepNewRoot, StepOpen, StepWriteCert, StepWriteKey, StepAbandon DEF
         Generate
<1>2. CASE LoadCert \/ LoadKey \/ Stop
      BY <1>2, StepProxy
<1>3. CASE Install \/ Uninstall
      BY <1>3, StepAdmin
<1>4. CASE UNCHANGED vars
      BY <1>4 DEF vars, files, proxyVars, adminVars, IInv, Types, HasRoot, Unforced, Alone,
         Quiet,
                  Saving, PairMatches, Removal, exists
<1> QED
      BY <1>1, <1>2, <1>3, <1>4 DEF Next

LEMMA Invariance == Spec => []IInv
BY InitEstablishes, StepPreserves, PTL DEF Spec

(* A generate without -force overwrites only what another generate opened  *)
(* after its check, however many run and wherever they are killed.         *)
THEOREM ForceNeeded == Spec => []NoForceKeeps
<1>1. IInv => NoForceKeeps
      BY ZenonT(30) DEF IInv, Types, Unforced, NoForceKeeps, File
<1> QED
      BY <1>1, Invariance, PTL

(* The proxy that loads its root while no save is under way and after one  *)
(* that nothing disturbed holds a matching pair, whatever raced or was cut *)
(* short before.                                                           *)
THEOREM LoadedPair == Spec => []PairMatches
<1>1. IInv => PairMatches
      BY DEF IInv, Alone
<1> QED
      BY <1>1, Invariance, PTL

(* After a successful uninstall the system trusts no root, whichever       *)
(* installer commands failed half-way before it.                           *)
THEOREM UninstallComplete == Spec => []UninstallRemoves
<1>1. IInv => UninstallRemoves
      BY DEF IInv, Removal, UninstallRemoves
<1> QED
      BY <1>1, Invariance, PTL
=============================================================================

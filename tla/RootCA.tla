------------------------------- MODULE RootCA -------------------------------
(***************************************************************************)
(* The root certificate on disk: `tg-proxy ca generate`, `install` and     *)
(* `uninstall` (cmd/tg-proxy/ca_cmd.go, internal/ca/ca.go and the Linux    *)
(* installer of internal/ca/install.go) and the start of the proxy, which  *)
(* loads the pair.  They are separate processes that share two files; any  *)
(* of them may fail at a system call or be killed.                         *)
(*                                                                         *)
(* A root is the number of the key pair it was made from.  A file holds    *)
(* the certificate or the key of a root, or is absent, or is torn: opened  *)
(* for writing, which truncates it, and not yet written.                   *)
(***************************************************************************)
EXTENDS Integers

CONSTANTS
    Generators,     \* processes that may run `ca generate`
    MaxRoots        \* bound on the roots generated

ASSUME RootAssumption == MaxRoots \in Nat

Root == 1..MaxRoots
Absent == 0
Torn == -1
File == {"cert", "key"}

VARIABLES
    file,       \* contents of the two files
    stage,      \* per generator: "idle", "new", "open", "write"
    which,      \* per generator: the file SaveRoot is at
    force,      \* per generator: the -force flag
    root,       \* per generator: the root NewRoot returned
    made,       \* number of roots generated
    proxy,      \* "down", "loadKey", "running"
    loaded,     \* the Root that LoadRoot returned
    admin,      \* the installer: "idle", "copied", "removed"
    dest,       \* linuxDefaultDest
    trusted,    \* roots in the system's bundle
    since,      \* history, per generator: files opened by others since its check
    alone,      \* history, per generator: no other wrote since its first open
    mixed,      \* history: the last save was cut short or not alone
    calm,       \* history: LoadRoot saw files of one undisturbed save
    removed     \* history: the last installer command was a successful uninstall

files == <<file, stage, which, force, root, made, since, alone, mixed>>
proxyVars == <<proxy, loaded, calm>>
adminVars == <<admin, dest, trusted, removed>>
vars == <<files, proxyVars, adminVars>>

Init ==
    /\ file = [f \in File |-> Absent]
    /\ stage = [p \in Generators |-> "idle"]
    /\ which = [p \in Generators |-> "cert"]
    /\ force = [p \in Generators |-> FALSE]
    /\ root = [p \in Generators |-> Absent]
    /\ made = 0
    /\ proxy = "down"
    /\ loaded = [f \in File |-> Absent]
    /\ admin = "idle"
    /\ dest = Absent
    /\ trusted = {}
    /\ since = [p \in Generators |-> {}]
    /\ alone = [p \in Generators |-> FALSE]
    /\ mixed = FALSE
    /\ calm = FALSE
    /\ removed = FALSE

-----------------------------------------------------------------------------
(***************************************************************************)
(* runCAGenerate, NewRoot, SaveRoot                                        *)
(***************************************************************************)
\* SaveRoot has opened the certificate and not finished the key.
Saving(p) == stage[p] = "write" \/ (stage[p] = "open" /\ which[p] = "key")

exists(f) == file[f] # Absent

MutMayGenerate(f) == f \/ ~(exists("cert") /\ exists("key"))
MayGenerate(f) == f \/ ~(exists("cert") \/ exists("key"))

Check(p, f) ==
    /\ stage[p] = "idle"
    /\ MayGenerate(f)
    /\ stage' = [stage EXCEPT ![p] = "new"]
    /\ force' = [force EXCEPT ![p] = f]
    /\ since' = [since EXCEPT ![p] = {}]
    /\ UNCHANGED <<file, which, root, made, alone, mixed, proxyVars, adminVars>>

NewRoot(p) ==
    /\ stage[p] = "new" /\ made < MaxRoots
    /\ made' = made + 1
    /\ root' = [root EXCEPT ![p] = made + 1]
    /\ stage' = [stage EXCEPT ![p] = "open"]
    /\ which' = [which EXCEPT ![p] = "cert"]
    /\ UNCHANGED <<file, force, since, alone, mixed, proxyVars, adminVars>>

\* The process ends.
Exit(p) ==
    /\ stage' = [stage EXCEPT ![p] = "idle"]
    /\ which' = [which EXCEPT ![p] = "cert"]
    /\ force' = [force EXCEPT ![p] = FALSE]
    /\ root' = [root EXCEPT ![p] = Absent]

\* No other generate wrote since this one began to.
StillAlone(p) == [q \in Generators |->
    /\ q = p
    /\ IF which[p] = "cert" THEN \A o \in Generators \ {p} : ~Saving(o) ELSE alone[p]]

\* A mutant: a key that is already there is kept.
MutOpen(p) ==
    /\ stage[p] = "open"
    /\ IF which[p] = "key" /\ exists("key")
       THEN Exit(p) /\ mixed' = ~alone[p] /\ UNCHANGED <<file, since, alone, calm>>
       ELSE /\ file' = [file EXCEPT ![which[p]] = Torn]
            /\ stage' = [stage EXCEPT ![p] = "write"]
            /\ alone' = StillAlone(p)
            /\ calm' = FALSE
            /\ UNCHANGED <<which, force, root, since, mixed>>
    /\ UNCHANGED <<made, proxy, loaded, adminVars>>

\* os.WriteFile opens and truncates the file.
Open(p) ==
    /\ stage[p] = "open"
    /\ file' = [file EXCEPT ![which[p]] = Torn]
    /\ stage' = [stage EXCEPT ![p] = "write"]
    /\ since' = [q \in Generators |->
                   IF q = p \/ stage[q] = "idle" THEN since[q] ELSE since[q] \cup {which[p]}]
    /\ alone' = StillAlone(p)
    /\ calm' = FALSE
    /\ UNCHANGED <<which, force, root, made, mixed, proxy, loaded, adminVars>>

\* What a write leaves.  Where two processes write one file at a time, the
\* end of the longer text may stick out behind the shorter.
Written(p) ==
    {root[p]} \cup
        {Torn : o \in {q \in Generators \ {p} : stage[q] = "write" /\ which[q] = which[p]}}

WriteCert(p) ==
    /\ stage[p] = "write" /\ which[p] = "cert"
    /\ \E c \in Written(p) : file' = [file EXCEPT !["cert"] = c]
    /\ which' = [which EXCEPT ![p] = "key"]
    /\ stage' = [stage EXCEPT ![p] = "open"]
    /\ UNCHANGED <<force, root, made, since, alone, mixed, proxyVars, adminVars>>

\* The key is the second file; generate reports success.
WriteKey(p) ==
    /\ stage[p] = "write" /\ which[p] = "key"
    /\ \E c \in Written(p) : file' = [file EXCEPT !["key"] = c]
    /\ Exit(p)
    /\ mixed' = ~alone[p]
    /\ UNCHANGED <<made, since, alone, proxyVars, adminVars>>

\* A step returns an error, or the process is killed.
Abandon(p) ==
    /\ stage[p] # "idle"
    /\ Exit(p)
    /\ mixed' = (mixed \/ Saving(p))
    /\ UNCHANGED <<file, made, since, alone, proxyVars, adminVars>>

-----------------------------------------------------------------------------
(***************************************************************************)
(* buildCertStore: LoadRoot reads and parses one file, then the other      *)
(***************************************************************************)
Parses(f) == file[f] \in Root

LoadCert ==
    /\ proxy = "down" /\ Parses("cert")
    /\ loaded' = [loaded EXCEPT !["cert"] = file["cert"]]
    /\ proxy' = "loadKey"
    /\ calm' = (~mixed /\ \A p \in Generators : ~Saving(p))
    /\ UNCHANGED <<files, adminVars>>

LoadKey ==
    /\ proxy = "loadKey" /\ Parses("key")
    /\ loaded' = [loaded EXCEPT !["key"] = file["key"]]
    /\ proxy' = "running"
    /\ UNCHANGED <<files, calm, adminVars>>

\* The key cannot be loaded, or the running proxy stops.
Stop ==
    /\ proxy # "down"
    /\ proxy' = "down"
    /\ loaded' = [f \in File |-> Absent]
    /\ calm' = FALSE
    /\ UNCHANGED <<files, adminVars>>

-----------------------------------------------------------------------------
(***************************************************************************)
(* The Linux installer                                                     *)
(***************************************************************************)
\* update-ca-certificates makes the bundle from what the directory holds.
Refreshed == {dest} \cap Root

\* Install copies the bytes as they are.
InstallCopy ==
    /\ admin = "idle" /\ exists("cert")
    /\ dest' = file["cert"]
    /\ admin' = "copied"
    /\ removed' = FALSE
    /\ UNCHANGED <<files, proxyVars, trusted>>

InstallRefresh ==
    /\ admin = "copied"
    /\ trusted' = Refreshed
    /\ admin' = "idle"
    /\ UNCHANGED <<files, proxyVars, dest, removed>>

\* A mutant: a file that is already gone ends the command with success.
MutUninstallRemove ==
    /\ admin = "idle"
    /\ dest' = Absent
    /\ admin' = IF dest = Absent THEN "idle" ELSE "removed"
    /\ removed' = (dest = Absent)
    /\ UNCHANGED <<files, proxyVars, trusted>>

\* A file that is already gone is no error.
UninstallRemove ==
    /\ admin = "idle"
    /\ dest' = Absent
    /\ admin' = "removed"
    /\ removed' = FALSE
    /\ UNCHANGED <<files, proxyVars, trusted>>

UninstallRefresh ==
    /\ admin = "removed"
    /\ trusted' = Refreshed
    /\ admin' = "idle"
    /\ removed' = TRUE
    /\ UNCHANGED <<files, proxyVars, dest>>

\* update-ca-certificates fails, or the command is killed before it.
RefreshFails ==
    /\ admin # "idle"
    /\ admin' = "idle"
    /\ UNCHANGED <<files, proxyVars, dest, trusted, removed>>

Generate(p) ==
    \/ \E f \in BOOLEAN : Check(p, f)
    \/ NewRoot(p) \/ Open(p) \/ WriteCert(p) \/ WriteKey(p) \/ Abandon(p)

Install == InstallCopy \/ InstallRefresh \/ RefreshFails
Uninstall == UninstallRemove \/ UninstallRefresh

Next ==
    \/ \E p \in Generators : Generate(p)
    \/ LoadCert \/ LoadKey \/ Stop
    \/ Install \/ Uninstall

Spec == Init /\ [][Next]_vars

-----------------------------------------------------------------------------
(* Without -force, generate replaces nothing it could have seen: a file it *)
(* is about to overwrite, a half pair left by a killed generate included,  *)
(* was put there after its check by another generate.                      *)
NoForceKeeps ==
    \A p \in Generators :
        stage[p] = "open" /\ ~force[p] /\ exists(which[p]) => which[p] \in since[p]

(* A proxy that loaded its root when no generate was saving and the last   *)
(* save was complete holds a certificate and a key that belong together,   *)
(* whatever was cut short, forced or raced before that save.               *)
PairMatches == proxy = "running" /\ calm => loaded["cert"] = loaded["key"]

(* Once uninstall has succeeded no root is trusted, also when an earlier   *)
(* install or uninstall failed half-way and was run again.                 *)
UninstallRemoves == removed => trusted = {}
=============================================================================

------------------------------- MODULE Startup -------------------------------
(***************************************************************************)
(* How a warrantd process comes up (cmd/warrantd): the broker, the gateway *)
(* and the command "keys show".  Processes on one host share a receipt key *)
(* file (internal/receipt/keyfile.go), which the first of them creates,    *)
(* and an installed license (internal/license).  Any of them may be killed *)
(* at any step; an administrator restores a key file or renews the license *)
(* meanwhile.                                                              *)
(***************************************************************************)
EXTENDS Integers, FiniteSets

CONSTANTS
    Procs,      \* processes; each is started once
    Setups,     \* command lines with their environment
    Licenses,   \* license tokens that may be installed
    Backup,     \* the key an administrator may restore
    EnvKey,     \* the seed in WARRANT_RECEIPT_KEY
    None,
    Grace,      \* license.Grace
    MaxTime,    \* bound on the clock
    MaxFaults   \* bound on failing disk operations and bad configurations

Commands == {"broker", "gateway", "keys"}

Sources == {"env", "file", "process"}

Keys == Procs \cup {Backup, EnvKey}

\* A key is neither of the markers for a file that holds none, and None is no
\* value of any kind.
ASSUME StartupAssumption ==
    /\ Setups \subseteq [cmd : Commands, envKey : {"unset", "bad", "good"},
                         keyFile : BOOLEAN, filter : BOOLEAN]
    /\ Keys \cap {"absent", "bad"} = {}
    /\ None \notin Setups \cup [key : Keys, from : Sources]
    /\ Licenses \subseteq [parses : BOOLEAN, vendor : BOOLEAN, product : STRING,
                           edition : STRING, features : SUBSET STRING, expires : Nat \cup {None}]
    /\ None \notin Procs \cup Licenses /\ Procs \cap {Backup, EnvKey} = {}
    /\ Grace \in Nat /\ MaxTime \in Nat /\ MaxFaults \in Nat

VARIABLES
    clock,
    keyFile,    \* the key file: "absent", "bad", or the key in it
    restoring,  \* an administrator's restore of the key file
    license,    \* the installed license, or None
    pc, setup,  \* each process
    temp,       \* processes whose temporary key file is on the disk
    linked,     \* what os.Link returned
    signer,     \* receipt.DefaultSigner: the key, and where it came from
    status,     \* license.Current, with the license and the time it was resolved at
    shown,      \* history: keys that signed a receipt, or that "keys show" printed,
                \* as the key of the file
    faults

keyVars == <<keyFile, restoring, temp, linked, signer, shown>>
licenseVars == <<license, status>>
vars == <<clock, pc, setup, faults, keyVars, licenseVars>>

Init ==
    /\ clock = 0
    /\ keyFile \in {"absent", "bad", Backup}
    /\ restoring = "no"
    /\ license \in Licenses \cup {None}
    /\ pc = [p \in Procs |-> "down"]
    /\ setup = [p \in Procs |-> None]
    /\ temp = {}
    /\ linked = [p \in Procs |-> "no"]
    /\ signer = [p \in Procs |-> None]
    /\ status = [p \in Procs |-> None]
    /\ shown = {}
    /\ faults = 0

Goto(p, l) == pc' = [pc EXCEPT ![p] = l]

Fault == faults < MaxFaults /\ faults' = faults + 1

-----------------------------------------------------------------------------
(* main and buildService *)

\* main: "keys show" goes straight to the receipt key.
Start(p, s) ==
    /\ pc[p] = "down" /\ setup[p] = None
    /\ setup' = [setup EXCEPT ![p] = s]
    /\ Goto(p, IF s.cmd = "keys" THEN "key" ELSE "build")
    /\ UNCHANGED <<clock, faults, keyVars, licenseVars>>

\* Store, signing key, policy and ledger; each of them may be fatal.
Build(p) ==
    /\ pc[p] = "build"
    /\ \/ Goto(p, "key") /\ UNCHANGED faults
       \/ Goto(p, "fatal") /\ Fault
    /\ UNCHANGED <<clock, setup, keyVars, licenseVars>>

-----------------------------------------------------------------------------
(* receipt.LoadOrCreateSigner, under defaultSignerOnce *)

Signer(key, from) == [key |-> key, from |-> from]

\* The signer is there.  A key that is nowhere on the disk is the process's own.
Signs(p, key, from) ==
    /\ signer' = [signer EXCEPT ![p] = Signer(key, from)]
    /\ Goto(p, "signer")

Ephemeral(p) == Signs(p, p, "process")

\* Mutant: without a place for a key file there is no signer.
LoadSignerOrNone(p) ==
    /\ pc[p] = "key"
    /\ \/ setup[p].envKey = "good" /\ Signs(p, EnvKey, "env")
       \/ setup[p].envKey # "good" /\ setup[p].keyFile /\ Goto(p, "read") /\ UNCHANGED signer
       \/ setup[p].envKey # "good" /\ ~setup[p].keyFile /\ Goto(p, "signer") /\ UNCHANGED signer
    /\ UNCHANGED <<clock, setup, faults, keyFile, restoring, temp, linked, shown, licenseVars>>

LoadSigner(p) ==
    /\ pc[p] = "key"
    /\ \/ setup[p].envKey = "good" /\ Signs(p, EnvKey, "env")
       \/ setup[p].envKey # "good" /\ setup[p].keyFile /\ Goto(p, "read") /\ UNCHANGED signer
       \/ setup[p].envKey # "good" /\ ~setup[p].keyFile /\ Ephemeral(p)
    /\ UNCHANGED <<clock, setup, faults, keyFile, restoring, temp, linked, shown, licenseVars>>

\* readSeedFile: an absent file is not an error yet; anything else that is not
\* a key is.
ReadSeed(p) ==
    /\ pc[p] = "read"
    /\ \/ keyFile = "absent" /\ linked[p] = "no" /\ Goto(p, "temp") /\ UNCHANGED <<signer, faults>>
       \/ /\ keyFile = "bad" \/ (keyFile = "absent" /\ linked[p] = "exists")
          /\ Ephemeral(p) /\ UNCHANGED faults
       \/ keyFile \notin {"absent", "bad"} /\ Signs(p, keyFile, "file") /\ UNCHANGED faults
       \/ Ephemeral(p) /\ Fault
    /\ UNCHANGED <<clock, setup, keyFile, restoring, temp, linked, shown, licenseVars>>

\* writeSeedFile up to the link: a fresh seed in a temporary file of the same
\* directory, synced.
WriteTemp(p) ==
    /\ pc[p] = "temp"
    /\ \/ temp' = temp \cup {p} /\ Goto(p, "link") /\ UNCHANGED <<signer, faults>>
       \/ UNCHANGED temp /\ Ephemeral(p) /\ Fault
    /\ UNCHANGED <<clock, setup, keyFile, restoring, linked, shown, licenseVars>>

\* Mutant: the file is put in place by a rename, whatever is there.
LinkOver(p) ==
    /\ pc[p] = "link"
    /\ keyFile' = p
    /\ linked' = [linked EXCEPT ![p] = "made"]
    /\ Goto(p, "unlink")
    /\ UNCHANGED <<clock, setup, faults, restoring, temp, signer, shown, licenseVars>>

\* os.Link of the temporary file: only one process can create the key file.
Link(p) ==
    /\ pc[p] = "link"
    /\ \/ /\ keyFile = "absent" /\ keyFile' = p
          /\ linked' = [linked EXCEPT ![p] = "made"] /\ UNCHANGED faults
       \/ /\ keyFile # "absent" /\ UNCHANGED keyFile
          /\ linked' = [linked EXCEPT ![p] = "exists"] /\ UNCHANGED faults
       \/ /\ UNCHANGED keyFile
          /\ linked' = [linked EXCEPT ![p] = "failed"] /\ Fault
    /\ Goto(p, "unlink")
    /\ UNCHANGED <<clock, setup, restoring, temp, signer, shown, licenseVars>>

\* Mutant: a process that was not the first signs with the seed it made.
UnlinkOwn(p) ==
    /\ pc[p] = "unlink"
    /\ temp' = temp \ {p}
    /\ Signs(p, p, IF linked[p] = "failed" THEN "process" ELSE "file")
    /\ UNCHANGED <<clock, setup, faults, keyFile, restoring, linked, shown, licenseVars>>

\* Mutant: that somebody else created the file is an error like any other.
UnlinkGivesUp(p) ==
    /\ pc[p] = "unlink"
    /\ temp' = temp \ {p}
    /\ IF linked[p] = "made" THEN Signs(p, p, "file") ELSE Ephemeral(p)
    /\ UNCHANGED <<clock, setup, faults, keyFile, restoring, linked, shown, licenseVars>>

\* The deferred os.Remove, and what loadOrCreateSeed makes of the result: its
\* own seed, the one another process was first to write, or an error.
Unlink(p) ==
    /\ pc[p] = "unlink"
    /\ temp' = temp \ {p}
    /\ CASE linked[p] = "made"   -> Signs(p, p, "file")
         [] linked[p] = "exists" -> Goto(p, "read") /\ UNCHANGED signer
         [] linked[p] = "failed" -> Ephemeral(p)
    /\ UNCHANGED <<clock, setup, faults, keyFile, restoring, linked, shown, licenseVars>>

-----------------------------------------------------------------------------
(* license *)

\* license.Verify: a signature by a vendor key, this product, a known edition.
Verify(l) ==
    /\ l.parses /\ l.vendor
    /\ l.product = "warrant" /\ l.edition = "enterprise"

\* Mutant: the grace period is looked at first.
resolveGraceFirst(l) ==
    IF l.expires # None /\ clock > l.expires THEN "grace"
    ELSE IF l.expires # None /\ clock > l.expires + Grace THEN "expired"
    ELSE "valid"

\* resolve: no expiry date means for ever.
resolve(l) ==
    IF l.expires # None /\ clock > l.expires + Grace THEN "expired"
    ELSE IF l.expires # None /\ clock > l.expires THEN "grace"
    ELSE "valid"

\* load: what cannot be read or verified counts as no license.
load ==
    [state |-> IF license = None \/ ~Verify(license) THEN "none" ELSE resolve(license),
     lic |-> license, at |-> clock]

\* Status.HasFeature, by the license's list or by its edition.
HasFeature(st) ==
    /\ st.state \in {"valid", "grace"}
    /\ "gateway-tool-filter" \in st.lic.features \/ st.lic.edition = "enterprise"

\* Current of a process that has not loaded yet.
Loads(p) == status' = [status EXCEPT ![p] = load]

\* The servers listen, unless the routes or an address cannot be used.
Listen(p) ==
    \/ Goto(p, "serving") /\ UNCHANGED faults
    \/ Goto(p, "fatal") /\ Fault

\* runGateway: Require of the gated feature, where it is asked for.
Require(p) ==
    /\ pc[p] = "require"
    /\ Loads(p)
    /\ IF HasFeature(load) THEN Listen(p) ELSE Goto(p, "unlicensed") /\ UNCHANGED faults
    /\ UNCHANGED <<clock, setup, keyVars, license>>

-----------------------------------------------------------------------------

\* Mutant: a gateway needs a license for whatever it does.
AfterSignerGated(s) == IF s.cmd = "gateway" THEN "require" ELSE "listen"

\* Only the gateway reads WARRANT_GATEWAY_FILTER_TOOLS_LIST.
Filters(s) == s.cmd = "gateway" /\ s.filter

\* buildService has returned to main or runGateway.
AfterSigner(s) == IF Filters(s) THEN "require" ELSE "listen"

\* The signer is shown to the world.
Shows(p) == shown' = IF signer[p].from = "file" THEN shown \cup {signer[p].key} ELSE shown

Ready(p) ==
    /\ pc[p] = "signer" /\ setup[p].cmd # "keys"
    /\ IF AfterSigner(setup[p]) = "listen" THEN Listen(p) ELSE Goto(p, "require") /\ UNCHANGED faults
    /\ UNCHANGED <<clock, setup, keyVars, licenseVars>>

KeysShow(p) ==
    /\ pc[p] = "signer" /\ setup[p].cmd = "keys"
    /\ Shows(p)
    /\ Goto(p, "exited")
    /\ UNCHANGED <<clock, setup, faults, keyFile, restoring, temp, linked, signer, licenseVars>>

\* attachReceipt of a serving process.
Sign(p) ==
    /\ pc[p] = "serving"
    /\ Shows(p)
    /\ UNCHANGED <<clock, pc, setup, faults, keyFile, restoring, temp, linked, signer, licenseVars>>

-----------------------------------------------------------------------------
(* Environment *)

\* The process is killed; its temporary file stays.
Kill(p) ==
    /\ pc[p] \notin {"down", "exited", "fatal", "unlicensed"}
    /\ Goto(p, "down")
    /\ signer' = [signer EXCEPT ![p] = None]
    /\ status' = [status EXCEPT ![p] = None]
    /\ linked' = [linked EXCEPT ![p] = "no"]
    /\ UNCHANGED <<clock, setup, faults, keyFile, restoring, temp, shown, license>>

\* An administrator copies a key to where there is none, and it takes a while.
Restore ==
    /\ \/ restoring = "no" /\ keyFile = "absent" /\ restoring' = "half" /\ keyFile' = "bad"
       \/ restoring = "half" /\ restoring' = "done" /\ keyFile' = Backup
    /\ UNCHANGED <<clock, pc, setup, faults, temp, linked, signer, shown, licenseVars>>

Renew(l) ==
    /\ license' = l
    /\ UNCHANGED <<clock, pc, setup, faults, keyVars, status>>

Tick ==
    /\ clock < MaxTime
    /\ clock' = clock + 1
    /\ UNCHANGED <<pc, setup, faults, keyVars, licenseVars>>

Step(p) ==
    \/ Build(p) \/ LoadSigner(p) \/ ReadSeed(p) \/ WriteTemp(p) \/ Link(p) \/ Unlink(p)
    \/ Ready(p) \/ KeysShow(p) \/ Require(p)

Next ==
    \/ \E p \in Procs : Step(p) \/ Sign(p) \/ Kill(p) \/ \E s \in Setups : Start(p, s)
    \/ Restore
    \/ \E l \in Licenses : Renew(l)
    \/ Tick

\* A process that has been started goes on; nothing in it waits for another.
Spec == Init /\ [][Next]_vars /\ \A p \in Procs : WF_vars(Step(p))

-----------------------------------------------------------------------------
(* Properties *)

StartupTypeOK ==
    /\ clock \in 0 .. MaxTime /\ faults \in 0 .. MaxFaults
    /\ keyFile \in {"absent", "bad", Backup} \cup Procs
    /\ restoring \in {"no", "half", "done"}
    /\ license \in Licenses \cup {None}
    /\ pc \in [Procs -> {"down", "build", "key", "read", "temp", "link", "unlink", "signer",
                         "require", "serving", "exited", "fatal", "unlicensed"}]
    /\ setup \in [Procs -> Setups \cup {None}]
    /\ linked \in [Procs -> {"no", "made", "exists", "failed"}]
    /\ \A p \in Procs :
          /\ pc[p] \in {"signer", "require", "serving"} => signer[p] # None
          /\ pc[p] \in {"link", "unlink"} => p \in temp

\* "Concurrent first runs agree": whatever was signed or printed with the key of
\* the file was signed with the key that is there now, over all races for its
\* creation and kills in between.
OneKey ==
    /\ shown \subseteq {keyFile}
    /\ \A p \in Procs : signer[p] # None /\ signer[p].from = "file" => signer[p].key = keyFile

\* A key file is "never overwritten" by a process, not even when it holds no key.
NeverOverwritten ==
    [][keyFile' # keyFile => keyFile = "absent" \/ restoring' # restoring]_vars

\* Losing the race for the key file costs nothing: while no disk operation has
\* failed and nobody has touched the file by hand, each process that may use a
\* file signs with the one key in it.
FileIsUsed ==
    faults = 0 /\ restoring = "no" /\ keyFile # "bad" =>
        \A p \in Procs : signer[p] # None /\ signer[p].from = "process" => ~setup[p].keyFile

\* The license l covers the feature at a time, counting the grace period.
Entitles(l, at) == l # None /\ Verify(l) /\ (l.expires = None \/ at - Grace <= l.expires)

\* A gateway that filters serves only when the license installed at its start
\* covered that moment, however often it was renewed and however long the
\* gateway runs; a process that is refused for its license filters, and had
\* none.
LicenseGates ==
    \A p \in Procs :
        /\ pc[p] = "serving" /\ Filters(setup[p]) => Entitles(status[p].lic, status[p].at)
        /\ pc[p] = "unlicensed" => Filters(setup[p]) /\ ~Entitles(status[p].lic, status[p].at)

\* "Warrant's core never requires a license": a broker, or a gateway that does
\* not filter, comes up whatever the license and the key file are, unless it is
\* killed or its routes or its address fail it.
CoreStarts ==
    \A p \in Procs :
        pc[p] = "key" /\ setup[p].cmd # "keys" /\ ~Filters(setup[p]) ~> pc[p] \in {"serving", "down", "fatal"}

=============================================================================

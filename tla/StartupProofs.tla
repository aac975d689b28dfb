---------------------------- MODULE StartupProofs ----------------------------
(***************************************************************************)
(* Proofs about Startup, for any number of processes, setups and licenses, *)
(* any clock and any number of faults: type correctness, that one key is   *)
(* ever shown as the key of the file (OneKey), that the file is never      *)
(* overwritten, that it is used when it can be (FileIsUsed), and that the  *)
(* license is asked exactly for what it gates (LicenseGates).              *)
(***************************************************************************)
EXTENDS Startup, TLAPS

\* What a process has by the place it has reached.
Local ==
    /\ signer \in [Procs -> [key : Keys, from : Sources] \cup {None}]
    /\ DOMAIN status = Procs
    /\ \A p \in Procs :
          /\ pc[p] # "down" => setup[p] \in Setups
          /\ signer[p] # None => setup[p] \in Setups
          /\ pc[p] \in {"down", "build", "key", "read", "temp", "link", "unlink"} => signer[p] = None
          /\ pc[p] = "unlink" => linked[p] # "no"

Shape == StartupTypeOK /\ Local

\* At the start no process runs.
LEMMA ShapeInit == Init => Shape
BY StartupAssumption DEF Init, Shape, Local, StartupTypeOK, Sources, Keys

\* A process's own seed, and the one it reads from the file, are keys.
LEMMA ShapeSigns ==
    ASSUME Shape, NEW p \in Procs, NEW key \in Keys, NEW from \in Sources,
           pc[p] \in {"key", "read", "temp", "unlink"}, Signs(p, key, from),
           UNCHANGED <<setup, linked, status>>, temp' \in {temp, temp \ {p}}
    PROVE  /\ pc' = [pc EXCEPT ![p] = "signer"]
           /\ signer' \in [Procs -> [key : Keys, from : Sources] \cup {None}]
           /\ \A q \in Procs :
                 /\ pc'[q] # "down" => setup'[q] \in Setups
                 /\ signer'[q] # None => setup'[q] \in Setups
                 /\ pc'[q] \in {"down", "build", "key", "read", "temp", "link", "unlink"} => signer'[q] = None
                 /\ pc'[q] = "unlink" => linked'[q] # "no"
                 /\ pc'[q] \in {"signer", "require", "serving"} => signer'[q] # None
                 /\ pc'[q] \in {"link", "unlink"} => q \in temp'
<1>1. Signer(key, from) \in [key : Keys, from : Sources] /\ Signer(key, from) # None
  BY StartupAssumption DEF Signer
<1> QED BY <1>1 DEF Signs, Goto, Shape, Local, StartupTypeOK

\* Every step of a process keeps what it has in line with its place.
LEMMA ShapeStep == Shape /\ [Next]_vars => Shape'
<1> SUFFICES ASSUME Shape, [Next]_vars PROVE Shape'
  OBVIOUS
<1> USE DEF Shape, Local, StartupTypeOK, Goto, Fault, keyVars, licenseVars
<1>1. ASSUME NEW p \in Procs, NEW s \in Setups, Start(p, s) PROVE Shape'
  BY <1>1, StartupAssumption DEF Start
<1>2. ASSUME NEW p \in Procs, Build(p) PROVE Shape'
  BY <1>2, StartupAssumption DEF Build
<1>3. ASSUME NEW p \in Procs, LoadSigner(p) PROVE Shape'
  <2>1. pc[p] = "key" /\ UNCHANGED <<clock, setup, faults, keyFile, restoring, temp, linked, shown, license, status>>
    BY <1>3 DEF LoadSigner
  <2>2. CASE Goto(p, "read") /\ UNCHANGED signer
    BY <2>1, <2>2
  <2>3. CASE \E key \in Keys, from \in Sources : Signs(p, key, from)
    <3>1. PICK key \in Keys, from \in Sources : Signs(p, key, from)
      BY <2>3
    <3> QED BY <2>1, <3>1, ShapeSigns
  <2>4. p \in Keys /\ EnvKey \in Keys /\ "env" \in Sources /\ "process" \in Sources
    BY DEF Keys, Sources
  <2> QED BY <1>3, <2>2, <2>3, <2>4 DEF LoadSigner, Ephemeral
<1>4. ASSUME NEW p \in Procs, ReadSeed(p) PROVE Shape'
  <2>1. CASE Goto(p, "temp") /\ UNCHANGED <<signer, faults>>
    BY <1>4, <2>1 DEF ReadSeed
  <2>2. CASE \E key \in Keys, from \in Sources : Signs(p, key, from)
    <3>1. PICK key \in Keys, from \in Sources : Signs(p, key, from)
      BY <2>2
    <3>2. faults' \in 0 .. MaxFaults
      BY <1>4, StartupAssumption DEF ReadSeed
    <3>3. pc[p] = "read" /\ UNCHANGED <<clock, setup, keyFile, restoring, temp, linked, shown, license, status>>
      BY <1>4 DEF ReadSeed
    <3> QED BY <3>1, <3>2, <3>3, ShapeSigns
  <2>3. p \in Keys /\ "file" \in Sources /\ "process" \in Sources
    BY DEF Keys, Sources
  <2>4. keyFile \notin {"absent", "bad"} => keyFile \in Keys
    BY DEF Keys
  <2> QED BY <1>4, <2>1, <2>2, <2>3, <2>4 DEF ReadSeed, Ephemeral
<1>5. ASSUME NEW p \in Procs, WriteTemp(p) PROVE Shape'
  <2>1. pc[p] = "temp" /\ UNCHANGED <<clock, setup, keyFile, restoring, linked, shown, license, status>>
    BY <1>5 DEF WriteTemp
  <2>2. CASE temp' = temp \cup {p} /\ Goto(p, "link") /\ UNCHANGED <<signer, faults>>
    BY <2>1, <2>2
  <2>3. CASE UNCHANGED temp /\ Ephemeral(p) /\ Fault
    <3>1. Signs(p, p, "process") /\ p \in Keys /\ "process" \in Sources
      BY <2>3 DEF Ephemeral, Keys, Sources
    <3>2. faults' \in 0 .. MaxFaults
      BY <2>3, StartupAssumption
    <3> QED BY <2>1, <2>3, <3>1, <3>2, ShapeSigns
  <2> QED BY <1>5, <2>2, <2>3 DEF WriteTemp
<1>6. ASSUME NEW p \in Procs, Link(p) PROVE Shape'
  BY <1>6, StartupAssumption DEF Link
<1>7. ASSUME NEW p \in Procs, Unlink(p) PROVE Shape'
  <2>1. CASE linked[p] = "exists"
    BY <1>7, <2>1 DEF Unlink
  <2>2. CASE linked[p] \in {"made", "failed"}
    <3>1. PICK from \in Sources : Signs(p, p, from)
      BY <1>7, <2>2 DEF Unlink, Ephemeral, Sources
    <3>2. pc[p] = "unlink" /\ temp' = temp \ {p}
          /\ UNCHANGED <<clock, setup, faults, keyFile, restoring, linked, shown, license, status>>
      BY <1>7 DEF Unlink
    <3>3. p \in Keys
      BY DEF Keys
    <3> QED BY <3>1, <3>2, <3>3, ShapeSigns
  <2> QED BY <1>7, <2>1, <2>2 DEF Unlink
<1>8. ASSUME NEW p \in Procs, Ready(p) PROVE Shape'
  BY <1>8, StartupAssumption DEF Ready, Listen
<1>9. ASSUME NEW p \in Procs, KeysShow(p) PROVE Shape'
  BY <1>9, StartupAssumption DEF KeysShow
<1>10. ASSUME NEW p \in Procs, Require(p) PROVE Shape'
  BY <1>10, StartupAssumption DEF Require, Loads, Listen
<1>11. ASSUME NEW p \in Procs, Sign(p) PROVE Shape'
  BY <1>11 DEF Sign
<1>12. ASSUME NEW p \in Procs, Kill(p) PROVE Shape'
  BY <1>12 DEF Kill
<1>13. ASSUME Restore PROVE Shape'
  BY <1>13 DEF Restore
<1>14. ASSUME NEW l \in Licenses, Renew(l) PROVE Shape'
  BY <1>14 DEF Renew
<1>15. ASSUME Tick PROVE Shape'
  BY <1>15, StartupAssumption DEF Tick
<1>16. ASSUME UNCHANGED vars PROVE Shape'
  BY <1>16 DEF vars
<1> QED BY <1>1, <1>2, <1>3, <1>4, <1>5, <1>6, <1>7, <1>8, <1>9, <1>10, <1>11, <1>12,
           <1>13, <1>14, <1>15, <1>16 DEF Next, Step

\* Types, and what a process has by its place, hold throughout.
THEOREM ShapeKept == Spec => []Shape
BY ShapeInit, ShapeStep, PTL DEF Spec

\* The state of every process, and of the files they share, is one the startup
\* code can be in: a process past the signer has one, and one about to link its
\* seed has written it.
THEOREM StartupTypeCorrect == Spec => []StartupTypeOK
<1>1. Shape => StartupTypeOK
  BY DEF Shape
<1> QED BY <1>1, ShapeKept, PTL

-----------------------------------------------------------------------------
(* The key file                                                            *)

NoKey == {"absent", "bad"}

\* What the key file is to a process that linked its seed, to one that has
\* the key in the file for its signer, and to whoever has seen a key.  A
\* restore that is under way has left half a file.
KeyHeld ==
    /\ restoring = "half" => keyFile = "bad"
    /\ shown \subseteq {keyFile} \ NoKey
    /\ \A p \in Procs :
          /\ linked[p] = "made" => keyFile = p
          /\ linked[p] = "exists" => keyFile # "absent"
          /\ linked[p] = "failed" => faults > 0
          /\ signer[p] # None /\ signer[p].from = "file" => signer[p].key = keyFile /\ keyFile \notin NoKey

\* At the start nobody holds a key.
LEMMA KeyHeldInit == Init => KeyHeld
BY DEF Init, KeyHeld

\* The key file changes only from absent to a fresh key or half a file, and
\* from there to the restored key: a key in it stays.
LEMMA FileStep ==
    ASSUME Shape, KeyHeld, [Next]_vars
    PROVE  /\ keyFile' # keyFile => keyFile = "absent" \/ (keyFile = "bad" /\ restoring = "half")
           /\ keyFile' = "absent" => keyFile = "absent"
           /\ restoring' = restoring => keyFile' \in {keyFile} \cup Procs
           /\ faults' >= faults
           /\ restoring' = "half" => keyFile' = "bad"
           /\ restoring' = "no" => restoring = "no"
<1> USE DEF Shape, StartupTypeOK, KeyHeld, keyVars, licenseVars, Fault
<1>1. ASSUME NEW p \in Procs, Step(p), ~Link(p) PROVE UNCHANGED <<keyFile, restoring>> /\ faults' >= faults
  <2>1. faults \in Nat /\ faults + 1 \in Nat /\ faults + 1 >= faults /\ faults >= faults
    BY StartupAssumption
  <2>2. UNCHANGED <<keyFile, restoring>> /\ faults' \in {faults, faults + 1}
    <3>1. CASE Build(p) \/ LoadSigner(p)
      BY <3>1 DEF Build, LoadSigner
    <3>2. CASE ReadSeed(p) \/ WriteTemp(p)
      BY <3>2 DEF ReadSeed, WriteTemp
    <3>3. CASE Unlink(p) \/ KeysShow(p)
      BY <3>3 DEF Unlink, KeysShow
    <3>4. CASE Ready(p) \/ Require(p)
      BY <3>4 DEF Ready, Require, Listen
    <3> QED BY <1>1, <3>1, <3>2, <3>3, <3>4 DEF Step
  <2> QED BY <2>1, <2>2
<1>2. ASSUME NEW p \in Procs, Link(p)
      PROVE  /\ UNCHANGED restoring /\ faults' >= faults
             /\ keyFile' = keyFile \/ (keyFile = "absent" /\ keyFile' = p)
  BY <1>2, StartupAssumption DEF Link
<1>3. ASSUME NEW p \in Procs, NEW s \in Setups, Sign(p) \/ Kill(p) \/ Start(p, s)
      PROVE  UNCHANGED <<keyFile, restoring, faults>>
  BY <1>3 DEF Sign, Kill, Start
<1>4. ASSUME Tick \/ \E l \in Licenses : Renew(l) PROVE UNCHANGED <<keyFile, restoring, faults>>
  BY <1>4 DEF Tick, Renew
<1>5. ASSUME NEW p \in Procs, Sign(p) \/ Kill(p) PROVE UNCHANGED <<keyFile, restoring, faults>>
  BY <1>5 DEF Sign, Kill
<1>6. CASE Restore
  BY <1>6, StartupAssumption DEF Restore, Keys
<1>7. CASE UNCHANGED vars
  BY <1>7, StartupAssumption DEF vars
<1>8. \A p \in Procs : p # "absent" /\ p # "bad"
  BY StartupAssumption DEF Keys
<1> QED BY <1>1, <1>2, <1>3, <1>4, <1>5, <1>6, <1>7, <1>8, StartupAssumption DEF Next

\* No step takes the key file away from those who hold its key.
LEMMA KeyHeldStep == Shape /\ KeyHeld /\ [Next]_vars => KeyHeld'
<1> SUFFICES ASSUME Shape, KeyHeld, [Next]_vars PROVE KeyHeld'
  OBVIOUS
<1>1. /\ keyFile' # keyFile => keyFile \in NoKey
      /\ keyFile' = "absent" => keyFile = "absent"
      /\ faults' >= faults /\ faults \in Nat /\ faults' \in Nat
      /\ restoring' = "half" => keyFile' = "bad"
  BY FileStep, ShapeStep DEF NoKey, Shape, StartupTypeOK
<1>2. \A p \in Procs : p \notin NoKey
  BY StartupAssumption DEF NoKey, Keys
<1>3. linked \in [Procs -> {"no", "made", "exists", "failed"}] /\ DOMAIN signer = Procs
  BY DEF Shape, StartupTypeOK, Local
<1> DEFINE LinkOK(p) ==
        /\ linked'[p] = "made" => keyFile' = p
        /\ linked'[p] = "exists" => keyFile' # "absent"
        /\ linked'[p] = "failed" => faults' > 0
    SignerOK(p) ==
        signer'[p] # None /\ signer'[p].from = "file" => signer'[p].key = keyFile' /\ keyFile' \notin NoKey
<1>4. ASSUME NEW q \in Procs, linked'[q] = linked[q] PROVE LinkOK(q)
  BY <1>1, <1>2, <1>4 DEF KeyHeld
<1>5. ASSUME NEW q \in Procs, signer'[q] = signer[q] PROVE SignerOK(q)
  BY <1>1, <1>5 DEF KeyHeld
<1>6. ASSUME UNCHANGED shown PROVE shown' \subseteq {keyFile'} \ NoKey
  BY <1>1, <1>6 DEF KeyHeld
<1>7. ASSUME UNCHANGED <<shown, linked, signer>> PROVE KeyHeld'
  BY <1>1, <1>4, <1>5, <1>6, <1>7 DEF KeyHeld
<1>8. ASSUME NEW p \in Procs, NEW key, NEW from, Signs(p, key, from),
             from = "file" => key = keyFile' /\ keyFile' \notin NoKey,
             UNCHANGED <<shown, linked>>
      PROVE  KeyHeld'
  <2>1. SignerOK(p)
    BY <1>3, <1>8 DEF Signs, Signer
  <2>2. \A q \in Procs \ {p} : signer'[q] = signer[q]
    BY <1>3, <1>8 DEF Signs
  <2> QED BY <1>1, <1>4, <1>5, <1>6, <1>8, <2>1, <2>2 DEF KeyHeld
<1>9. ASSUME NEW p \in Procs, LoadSigner(p) PROVE KeyHeld'
  BY <1>7, <1>8, <1>9 DEF LoadSigner, Ephemeral
<1>10. ASSUME NEW p \in Procs, ReadSeed(p) PROVE KeyHeld'
  BY <1>7, <1>8, <1>10 DEF ReadSeed, Ephemeral, NoKey
<1>11. ASSUME NEW p \in Procs, WriteTemp(p) PROVE KeyHeld'
  BY <1>7, <1>8, <1>11 DEF WriteTemp, Ephemeral
<1>12. ASSUME NEW p \in Procs, Link(p) PROVE KeyHeld'
  <2>1. LinkOK(p)
    BY <1>1, <1>3, <1>12 DEF Link, Fault
  <2>2. \A q \in Procs \ {p} : linked'[q] = linked[q]
    BY <1>3, <1>12 DEF Link
  <2>3. UNCHANGED <<shown, signer>>
    BY <1>12 DEF Link
  <2> QED BY <1>1, <1>4, <1>5, <1>6, <2>1, <2>2, <2>3 DEF KeyHeld
<1>13. ASSUME NEW p \in Procs, Unlink(p) PROVE KeyHeld'
  <2>1. UNCHANGED <<keyFile, shown, linked>>
    BY <1>13 DEF Unlink
  <2>2. linked[p] = "made" => keyFile' = p /\ keyFile' \notin NoKey
    BY <1>2, <2>1 DEF KeyHeld
  <2>3. linked[p] # "no"
    BY <1>13 DEF Unlink, Shape, Local
  <2> QED BY <1>3, <1>7, <1>8, <1>13, <2>1, <2>2, <2>3 DEF Unlink, Ephemeral
<1>14. ASSUME NEW p \in Procs, Shows(p), signer[p] # None, UNCHANGED <<linked, signer, keyFile>>
       PROVE  KeyHeld'
  <2>1. shown' \subseteq {keyFile'} \ NoKey
    BY <1>14 DEF Shows, KeyHeld
  <2> QED BY <1>1, <1>4, <1>5, <1>14, <2>1 DEF KeyHeld
<1>15. ASSUME NEW p \in Procs, KeysShow(p) \/ Sign(p) PROVE KeyHeld'
  BY <1>14, <1>15 DEF KeysShow, Sign, Shape, StartupTypeOK
<1>16. ASSUME NEW p \in Procs, Kill(p) PROVE KeyHeld'
  <2>1. LinkOK(p) /\ SignerOK(p)
    BY <1>3, <1>16 DEF Kill
  <2>2. \A q \in Procs \ {p} : linked'[q] = linked[q] /\ signer'[q] = signer[q]
    BY <1>3, <1>16 DEF Kill
  <2>3. UNCHANGED shown
    BY <1>16 DEF Kill
  <2> QED BY <1>1, <1>4, <1>5, <1>6, <2>1, <2>2, <2>3 DEF KeyHeld
<1>17. ASSUME NEW p \in Procs, Build(p) \/ Ready(p) \/ Require(p) PROVE KeyHeld'
  BY <1>7, <1>17 DEF Build, Ready, Require, keyVars
<1>18. ASSUME NEW p \in Procs, NEW s \in Setups, Start(p, s) PROVE KeyHeld'
  BY <1>7, <1>18 DEF Start, keyVars
<1>19. ASSUME Restore \/ Tick \/ \E l \in Licenses : Renew(l) PROVE KeyHeld'
  BY <1>7, <1>19 DEF Restore, Tick, Renew, keyVars
<1>20. CASE UNCHANGED vars
  BY <1>7, <1>20 DEF vars, keyVars
<1> QED BY <1>9, <1>10, <1>11, <1>12, <1>13, <1>15, <1>16, <1>17, <1>18, <1>19, <1>20 DEF Next, Step

\* A key in use is the key in the file throughout.
THEOREM KeyKept == Spec => [](Shape /\ KeyHeld)
BY ShapeInit, ShapeStep, KeyHeldInit, KeyHeldStep, PTL DEF Spec

\* "Concurrent first runs agree", for any number of them: over all races for
\* the creation of the key file, and kills in between, one key is shown.
THEOREM KeysAgree == Spec => []OneKey
<1>1. KeyHeld => OneKey
  BY DEF KeyHeld, OneKey
<1> QED BY <1>1, KeyKept, PTL

\* No process ever overwrites the key file, with or without a key in it.
THEOREM KeyFileKept == Spec => NeverOverwritten
<1>1. Shape /\ KeyHeld /\ [Next]_vars =>
         [keyFile' # keyFile => keyFile = "absent" \/ restoring' # restoring]_vars
  <2> SUFFICES ASSUME Shape, KeyHeld, [Next]_vars, keyFile' # keyFile, restoring = "half",
                      restoring' = restoring
               PROVE  FALSE
    BY FileStep
  <2> QED BY FileStep DEF KeyHeld
<1> QED BY <1>1, KeyKept, PTL DEF Spec, NeverOverwritten

-----------------------------------------------------------------------------
(* The key of the file is used                                             *)

\* Where a new signer of a step comes from: a process that makes do with a key
\* of its own may use no file, has met a fault, or has found a bad file.
LEMMA SignerStep ==
    ASSUME Shape, KeyHeld, [Next]_vars, NEW q \in Procs
    PROVE  \/ signer'[q] = signer[q] /\ (signer[q] # None => setup'[q] = setup[q])
           \/ signer'[q] = None
           \/ signer'[q] # None /\ signer'[q].from # "process"
           \/ ~setup'[q].keyFile
           \/ faults' > 0
           \/ keyFile' = "bad"
<1> USE DEF keyVars, licenseVars
<1>1. DOMAIN signer = Procs /\ DOMAIN setup = Procs /\ DOMAIN linked = Procs
  BY DEF Shape, StartupTypeOK, Local
<1>2. faults \in Nat
  BY StartupAssumption DEF Shape, StartupTypeOK
<1>3. ASSUME Fault PROVE faults' > 0
  BY <1>2, <1>3 DEF Fault
<1>4. ASSUME NEW p \in Procs, NEW key, NEW from, Signs(p, key, from)
      PROVE  IF q = p THEN signer'[q] = Signer(key, from) ELSE signer'[q] = signer[q]
  BY <1>1, <1>4 DEF Signs
<1>5. ASSUME NEW p \in Procs, LoadSigner(p)
      PROVE  setup' = setup /\ \A r \in Procs \ {p} : signer'[r] = signer[r]
  BY <1>1, <1>5 DEF LoadSigner, Ephemeral, Signs
<1>6. ASSUME NEW p \in Procs, LoadSigner(p)
      PROVE  signer'[p] = signer[p] \/ (signer'[p].from = "env" /\ signer'[p] # None) \/ ~setup'[p].keyFile
  <2>1. Signer(EnvKey, "env") # None /\ Signer(EnvKey, "env").from = "env"
    BY StartupAssumption DEF Signer, Keys, Sources
  <2>2. setup' = setup
    BY <1>6 DEF LoadSigner
  <2> QED BY <1>1, <1>6, <2>1, <2>2 DEF LoadSigner, Ephemeral, Signs
<1>7. ASSUME NEW p \in Procs, ReadSeed(p)
      PROVE  /\ setup' = setup
             /\ \A r \in Procs \ {p} : signer'[r] = signer[r]
             /\ \/ signer'[p] = signer[p] \/ faults' > 0 \/ keyFile' = "bad"
                \/ signer'[p] = Signer(keyFile, "file") /\ keyFile \in Keys
  <2>1. linked[p] = "exists" => keyFile # "absent"
    BY DEF KeyHeld
  <2>2. keyFile \notin {"absent", "bad"} => keyFile \in Keys
    BY DEF Shape, StartupTypeOK, Keys
  <2> QED BY <1>1, <1>3, <1>7, <2>1, <2>2 DEF ReadSeed, Ephemeral, Signs
<1>8. ASSUME NEW p \in Procs, WriteTemp(p)
      PROVE  setup' = setup /\ (signer' = signer \/ faults' > 0)
  BY <1>3, <1>8 DEF WriteTemp
<1>9. ASSUME NEW p \in Procs, Unlink(p)
      PROVE  /\ setup' = setup
             /\ \/ signer' = signer
                \/ faults' > 0
                \/ (\A r \in Procs \ {p} : signer'[r] = signer[r]) /\ signer'[p] = Signer(p, "file")
  <2>1. linked[p] \in {"made", "exists", "failed"} /\ (linked[p] = "failed" => faults > 0)
    BY <1>9 DEF Unlink, Shape, StartupTypeOK, Local, KeyHeld
  <2> QED BY <1>1, <1>9, <2>1 DEF Unlink, Signs
<1>10. ASSUME NEW p \in Procs, Kill(p)
       PROVE  setup' = setup /\ signer'[p] = None /\ \A r \in Procs \ {p} : signer'[r] = signer[r]
  BY <1>1, <1>10 DEF Kill
<1>11. ASSUME NEW p \in Procs, NEW s \in Setups, Start(p, s)
       PROVE  signer' = signer /\ signer[p] = None /\ \A r \in Procs \ {p} : setup'[r] = setup[r]
  BY <1>1, <1>11 DEF Start, Shape, Local
<1>12. ASSUME NEW p \in Procs, Build(p) \/ Link(p) \/ Ready(p) \/ KeysShow(p) \/ Require(p) \/ Sign(p)
       PROVE  signer' = signer /\ setup' = setup
  BY <1>12 DEF Build, Link, Ready, KeysShow, Require, Sign
<1>13. ASSUME Restore \/ Tick \/ (\E l \in Licenses : Renew(l)) \/ UNCHANGED vars
       PROVE  signer' = signer /\ setup' = setup
  BY <1>13 DEF Restore, Tick, Renew, vars
<1>14. \A key \in Keys : Signer(key, "file") # None /\ Signer(key, "file").from = "file"
  BY StartupAssumption DEF Signer, Keys, Sources
<1>15. \A p \in Procs : p \in Keys
  BY DEF Keys
<1>16. CASE \E p \in Procs : LoadSigner(p) \/ ReadSeed(p)
  BY <1>5, <1>6, <1>7, <1>14, <1>16
<1>17. CASE \E p \in Procs : Unlink(p) \/ WriteTemp(p) \/ Kill(p)
  BY <1>8, <1>9, <1>10, <1>14, <1>15, <1>17
<1>18. CASE \E p \in Procs : \E s \in Setups : Start(p, s)
  BY <1>11, <1>18
<1> QED BY <1>12, <1>13, <1>16, <1>17, <1>18 DEF Next, Step

\* Every step keeps FileIsUsed: a process that makes do with a key of its own
\* has met a fault, a bad file or a restore.
LEMMA FileIsUsedStep ==
    ASSUME Shape, KeyHeld, FileIsUsed, [Next]_vars
    PROVE  FileIsUsed'
<1> SUFFICES ASSUME faults' = 0, restoring' = "no", keyFile' # "bad",
                    NEW q \in Procs, signer'[q] # None, signer'[q].from = "process"
             PROVE  ~setup'[q].keyFile
  BY DEF FileIsUsed
<1>1. faults \in Nat
  BY StartupAssumption DEF Shape, StartupTypeOK
<1>2. faults = 0 /\ restoring = "no" /\ keyFile # "bad"
  BY <1>1, FileStep
<1>3. signer[q] # None /\ signer[q].from = "process" => ~setup[q].keyFile
  BY <1>2 DEF FileIsUsed
<1> QED BY <1>3, SignerStep

\* While no disk operation fails and nobody touches the key file by hand, every
\* process that may use a file signs with the key in it, whoever created it.
THEOREM FileAlwaysUsed == Spec => []FileIsUsed
<1>1. Init => FileIsUsed
  BY DEF Init, FileIsUsed
<1>2. (Shape /\ KeyHeld) /\ FileIsUsed /\ [Next]_vars => FileIsUsed'
  BY FileIsUsedStep
<1> QED BY <1>1, <1>2, KeyKept, PTL DEF Spec

-----------------------------------------------------------------------------
(* The license                                                             *)

\* What load finds out is whether the license covers this moment: Verify leaves
\* one edition, the one that has every feature, and resolve knows the grace
\* period.
LEMMA LoadRight ==
    ASSUME Shape
    PROVE  HasFeature(load) <=> Entitles(license, clock)
<1> DEFINE e == license.expires
<1>1. clock \in Int /\ Grace \in Int
  BY StartupAssumption DEF Shape, StartupTypeOK
<1>2. CASE license = None
  BY <1>2 DEF HasFeature, load, Entitles
<1>3. CASE license # None
  <2>1. license \in Licenses /\ e \in Nat \cup {None}
    BY <1>3, StartupAssumption DEF Shape, StartupTypeOK
  <2>2. resolve(license) \in {"valid", "grace"} <=> e = None \/ clock - Grace <= e
    <3>1. CASE e = None
      BY <3>1 DEF resolve
    <3>2. CASE e # None
      <4>1. e \in Int
        BY <2>1, <3>2
      <4>2. clock > e + Grace <=> ~(clock - Grace <= e)
        BY <1>1, <4>1
      <4> QED BY <3>2, <4>2 DEF resolve
    <3> QED BY <3>1, <3>2
  <2>3. load.lic = license /\ load.state = IF ~Verify(license) THEN "none" ELSE resolve(license)
    BY <1>3 DEF load
  <2>4. Verify(license) => license.edition = "enterprise"
    BY DEF Verify
  <2> QED BY <1>3, <2>2, <2>3, <2>4 DEF HasFeature, Entitles
<1> QED BY <1>2, <1>3

\* The license was asked where the tool filter is, and nowhere else.
Gates ==
    /\ LicenseGates
    /\ \A p \in Procs : pc[p] = "require" => Filters(setup[p])

\* Every step keeps the license gate: a process serves with the tool filter
\* only after RequireFeature has let it.
LEMMA GatesStep ==
    ASSUME Shape, Gates, [Next]_vars
    PROVE  Gates'
<1> DEFINE GateOK(p) ==
        /\ pc[p] = "serving" /\ Filters(setup[p]) => Entitles(status[p].lic, status[p].at)
        /\ pc[p] = "unlicensed" => Filters(setup[p]) /\ ~Entitles(status[p].lic, status[p].at)
        /\ pc[p] = "require" => Filters(setup[p])
<1>1. \A p \in Procs : GateOK(p)
  BY DEF Gates, LicenseGates
<1>2. SUFFICES \A p \in Procs : GateOK(p)'
  BY DEF Gates, LicenseGates, Filters, Entitles, Verify
<1>3. DOMAIN pc = Procs /\ DOMAIN setup = Procs /\ DOMAIN status = Procs
  BY DEF Shape, StartupTypeOK, Local
<1>4. ASSUME NEW q \in Procs, pc'[q] = pc[q] \/ pc'[q] \notin {"serving", "unlicensed", "require"},
             setup'[q] = setup[q], status'[q] = status[q]
      PROVE  GateOK(q)'
  BY <1>1, <1>4
<1>5. ASSUME NEW p \in Procs, NEW l, Goto(p, l), l \notin {"serving", "unlicensed", "require"},
             UNCHANGED <<setup, status>>
      PROVE  \A q \in Procs : GateOK(q)'
  BY <1>3, <1>4, <1>5 DEF Goto
<1>6. ASSUME NEW p \in Procs, Build(p) \/ Link(p) \/ KeysShow(p) PROVE \A q \in Procs : GateOK(q)'
  <2>1. PICK l \in {"key", "fatal", "unlink", "exited"} : Goto(p, l)
    BY <1>6 DEF Build, Link, KeysShow
  <2>2. UNCHANGED <<setup, status>>
    BY <1>6 DEF Build, Link, KeysShow, licenseVars
  <2> QED BY <1>5, <2>1, <2>2
<1>7. ASSUME NEW p \in Procs, LoadSigner(p) \/ ReadSeed(p) \/ WriteTemp(p) PROVE \A q \in Procs : GateOK(q)'
  <2>1. PICK l \in {"read", "signer", "temp", "link"} : Goto(p, l)
    BY <1>7 DEF LoadSigner, ReadSeed, WriteTemp, Ephemeral, Signs
  <2>2. UNCHANGED <<setup, status>>
    BY <1>7 DEF LoadSigner, ReadSeed, WriteTemp, licenseVars
  <2> QED BY <1>5, <2>1, <2>2
<1>8. ASSUME NEW p \in Procs, Unlink(p) PROVE \A q \in Procs : GateOK(q)'
  <2>1. PICK l \in {"read", "signer"} : Goto(p, l)
    BY <1>8 DEF Unlink, Ephemeral, Signs, Shape, Local, StartupTypeOK
  <2>2. UNCHANGED <<setup, status>>
    BY <1>8 DEF Unlink, licenseVars
  <2> QED BY <1>5, <2>1, <2>2
<1>9. ASSUME NEW p \in Procs, Ready(p) PROVE \A q \in Procs : GateOK(q)'
  <2>1. UNCHANGED <<setup, status>> /\ \A q \in Procs \ {p} : pc'[q] = pc[q]
    BY <1>3, <1>9 DEF Ready, Listen, Goto, licenseVars
  <2>2. GateOK(p)'
    BY <1>3, <1>9, <2>1 DEF Ready, Listen, Goto, AfterSigner
  <2> QED BY <1>4, <2>1, <2>2
<1>10. ASSUME NEW p \in Procs, Require(p) PROVE \A q \in Procs : GateOK(q)'
  <2>1. setup' = setup /\ \A q \in Procs \ {p} : pc'[q] = pc[q] /\ status'[q] = status[q]
    BY <1>3, <1>10 DEF Require, Listen, Loads, Goto
  <2>2. Filters(setup'[p])
    BY <1>1, <1>10, <2>1 DEF Require
  <2>3. status'[p].lic = license /\ status'[p].at = clock
    BY <1>3, <1>10 DEF Require, Loads, load
  <2>4. \/ pc'[p] \in {"serving", "fatal"} /\ HasFeature(load)
        \/ pc'[p] = "unlicensed" /\ ~HasFeature(load)
    BY <1>3, <1>10 DEF Require, Listen, Goto
  <2>5. GateOK(p)'
    BY <2>2, <2>3, <2>4, LoadRight DEF Filters
  <2> QED BY <1>4, <2>1, <2>5
<1>11. ASSUME NEW p \in Procs, Sign(p) PROVE \A q \in Procs : GateOK(q)'
  BY <1>4, <1>11 DEF Sign, licenseVars
<1>12. ASSUME NEW p \in Procs, Kill(p) PROVE \A q \in Procs : GateOK(q)'
  <2>1. GateOK(p)'
    BY <1>3, <1>12 DEF Kill, Goto
  <2>2. \A q \in Procs \ {p} : pc'[q] = pc[q] /\ setup'[q] = setup[q] /\ status'[q] = status[q]
    BY <1>3, <1>12 DEF Kill, Goto
  <2> QED BY <1>4, <2>1, <2>2
<1>13. ASSUME NEW p \in Procs, NEW s \in Setups, Start(p, s) PROVE \A q \in Procs : GateOK(q)'
  <2>1. GateOK(p)'
    BY <1>3, <1>13 DEF Start, Goto
  <2>2. \A q \in Procs \ {p} : pc'[q] = pc[q] /\ setup'[q] = setup[q] /\ status'[q] = status[q]
    BY <1>3, <1>13 DEF Start, Goto, licenseVars
  <2> QED BY <1>4, <2>1, <2>2
<1>14. ASSUME Restore \/ Tick \/ (\E l \in Licenses : Renew(l)) \/ UNCHANGED vars
       PROVE  \A q \in Procs : GateOK(q)'
  <2>1. UNCHANGED <<pc, setup, status>>
    BY <1>14 DEF Restore, Tick, Renew, vars, licenseVars
  <2> QED BY <1>4, <2>1
<1> QED BY <1>6, <1>7, <1>8, <1>9, <1>10, <1>11, <1>12, <1>13, <1>14 DEF Next, Step

\* The gateway's tool filter is served only under a license that covered the
\* start of the process, and a process is refused for its license only when it
\* filters and none covers it: for any licenses, renewals and clock.
THEOREM LicenseEnforced == Spec => []LicenseGates
<1>1. Init => Gates
  BY DEF Init, Gates, LicenseGates
<1>2. Shape /\ Gates /\ [Next]_vars => Gates'
  BY GatesStep
<1>3. Gates => LicenseGates
  BY DEF Gates
<1> QED BY <1>1, <1>2, <1>3, ShapeKept, PTL DEF Spec

=============================================================================

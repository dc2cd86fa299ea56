--------------------------- MODULE Devices_proofs ---------------------------
(***************************************************************************)
(* Proofs about Devices for any devices, setups and rates, any scans, and   *)
(* a process that may be killed at every step.                              *)
(***************************************************************************)
EXTENDS Devices, TLAPS

USE DEF memory, devGhost, devVars

-----------------------------------------------------------------------------
(* The inductive invariant.                                                *)

\* A choice that is in the table only is that of the selected device, and the
\* key remembered is that of the selection.
Selection ==
    /\ unsaved \subseteq {sel} \cap devices
    /\ sel # None => selKey = sel
    /\ pc = "saving" => unsaved = {}
    /\ pc = "down" => devices = {} /\ sel = None /\ unwritten = {}

\* What the user chose for d is what the stash p holds of it, if it is to be
\* remembered at all.
Remembers(p, d) ==
    \/ chosen[d] = None
    \/ d \in dropped
    \/ p[d] # None /\ p[d].setup = chosen[d]

\* The stash is complete but for the choices in the table only.
Stashed == pc # "down" => \A d \in Devs \ unsaved : Remembers(prefs, d)

\* The file is complete but for what was chosen since it was written; one that
\* was torn has been paid for when the process comes back.
Written ==
    /\ file # None => \A d \in Devs \ unwritten : Remembers(file.prefs, d)
    /\ file = None /\ pc = "down" => \A d \in Devs : chosen[d] = None

\* What a clean exit left behind is in the stash and in the file, until a scan
\* lists a device.
Quit(p, key) == /\ p[left.dev] = [setup |-> left.setup, rate |-> left.rate]
                /\ key = left.dev

Leaving ==
    left # None =>
        /\ left \in [dev : Devs, setup : Setups, rate : Rates]
        /\ pc # "down" => Quit(prefs, selKey)
        /\ pc = "down" => file # None /\ Quit(file.prefs, file.selKey)
        /\ pc = "up" \/ ~quitting => devices = {} /\ sel = None

-----------------------------------------------------------------------------
(* What the operators of the stash return.                                 *)

\* harvest_device_prefs() gives the selected device its setup and the rate, and
\* leaves the others alone.
LEMMA HarvestKeeps ==
  ASSUME DevTypeOK
  PROVE  /\ Harvested \in [Devs -> Stash \cup {None}]
         /\ \A d \in Devs \ {sel} : Harvested[d] = prefs[d]
         /\ sel # None => Harvested[sel] = [setup |-> setup[sel], rate |-> rate]
<1>1. CASE sel = None
  BY <1>1, DevicesAssumption DEF DevTypeOK, Harvested
<1>2. CASE sel # None
  <2>1. sel \in Devs /\ [setup |-> setup[sel], rate |-> rate] \in Stash
    BY <1>2 DEF DevTypeOK, Stash
  <2>2. QED
    BY <1>2, <2>1 DEF DevTypeOK, Harvested
<1>3. QED
  BY <1>1, <1>2

\* A harvest brings the stash up to date.
LEMMA HarvestRemembers ==
  ASSUME DevTypeOK, Selection, Stashed, SetupKept, pc = "up"
  PROVE  \A d \in Devs : Remembers(Harvested, d)
<1> SUFFICES ASSUME NEW d \in Devs PROVE Remembers(Harvested, d)
  OBVIOUS
<1>1. CASE d = sel
  <2>1. sel # None /\ d \in devices
    BY <1>1, DevicesAssumption DEF DevTypeOK
  <2>2. /\ [setup |-> setup[d], rate |-> rate] \in Stash
        /\ Harvested[d] = [setup |-> setup[d], rate |-> rate]
    BY <1>1, <2>1, HarvestKeeps DEF DevTypeOK, Stash
  <2>3. Harvested[d] # None
    BY <2>2, DevicesAssumption
  <2>4. Harvested[d].setup = setup[d]
    BY <2>2
  <2>5. QED
    BY <2>1, <2>3, <2>4 DEF SetupKept, Remembers
<1>2. CASE d # sel
  BY <1>2, HarvestKeeps DEF Selection, Stashed, Remembers
<1>3. QED
  BY <1>1, <1>2

LEMMA NothingStashed == NoFile \in Files
BY DEF NoFile, Files

LEMMA FileTyped ==
  ASSUME DevTypeOK
  PROVE  [prefs |-> prefs, selKey |-> selKey] \in Files
BY DEF DevTypeOK, Files

\* apply_device_prefs() gives a device the setup it is remembered with.
LEMMA RecallTyped ==
  ASSUME DevTypeOK, NEW d \in Devs
  PROVE  Recalled(d) \in Setups
BY DevicesAssumption DEF DevTypeOK, Recalled, Stash

-----------------------------------------------------------------------------
(* Types.                                                                  *)

LEMMA DevTypeCorrect == DevSpec => []DevTypeOK
<1>1. DevInit => DevTypeOK
  BY DevicesAssumption, NothingStashed DEF DevInit, NoFile, DevTypeOK
<1>2. DevTypeOK /\ [DevNext]_devVars => DevTypeOK'
  <2> SUFFICES ASSUME DevTypeOK, [DevNext]_devVars PROVE DevTypeOK'
    OBVIOUS
  <2> USE DEF DevTypeOK
  <2>1. ASSUME NEW list \in SUBSET Devs, ScanResult(list) PROVE DevTypeOK'
    <3>1. PICK first \in IF list = {} THEN {None} ELSE list :
            /\ setup' = [d \in Devs |->
                  CASE d \in list \cap devices -> setup[d]
                    [] d \in list \ devices    -> Recalled(d)
                    [] OTHER                   -> Default]
            /\ sel' = IF (IF sel = None THEN selKey ELSE sel) \in list
                      THEN (IF sel = None THEN selKey ELSE sel) ELSE first
            /\ selKey' = IF sel' = None THEN selKey ELSE sel'
            /\ rate' = IF sel' # None /\ prefs[sel'] # None
                       THEN prefs[sel'].rate ELSE rate
      BY <2>1 DEF ScanResult
    <3>2. setup' \in [Devs -> Setups]
      <4>1. \A d \in Devs : setup'[d] \in Setups
        BY <3>1, RecallTyped, DevicesAssumption
      <4>2. QED
        BY <3>1, <4>1
    <3>3. devices' = list /\ sel' \in devices' \cup {None}
      BY <2>1, <3>1 DEF ScanResult
    <3>4. selKey' \in Devs \cup {None} /\ rate' \in Rates
      BY <3>1, <3>3 DEF Stash
    <3>5. QED
      BY <2>1, <3>2, <3>3, <3>4 DEF ScanResult
  <2>2. ASSUME NEW d \in Devs, Select(d) PROVE DevTypeOK'
    BY <2>2, HarvestKeeps DEF Select
  <2>3. ASSUME NEW s \in Setups, Edit(s) PROVE DevTypeOK'
    BY <2>3 DEF Edit
  <2>4. ASSUME NEW r \in Rates, PickRate(r) PROVE DevTypeOK'
    BY <2>4 DEF PickRate
  <2>5. ASSUME NEW quit \in BOOLEAN, BeginSave(quit) PROVE DevTypeOK'
    BY <2>5, HarvestKeeps DEF BeginSave
  <2>6. CASE EndSave
    <3>1. file' \in Files \cup {None}
      BY <2>6, FileTyped DEF EndSave
    <3>2. CASE quitting
      <4>1. Gone /\ UNCHANGED << chosen, dropped, left >>
        BY <2>6, <3>2, Zenon DEF EndSave
      <4>2. QED
        BY <4>1, <3>1, NothingStashed, DevicesAssumption DEF Gone, NoFile, Files
    <3>3. CASE ~quitting
      BY <2>6, <3>1, <3>3, Zenon DEF EndSave
    <3>4. QED
      BY <3>2, <3>3
  <2>7. CASE Kill
    BY <2>7, NothingStashed, DevicesAssumption DEF Kill, Gone, NoFile, Files
  <2>8. CASE Restart
    <3>1. /\ prefs' = (IF file = None THEN NoFile ELSE file).prefs
          /\ selKey' = (IF file = None THEN NoFile ELSE file).selKey
      BY <2>8, Zenon DEF Restart
    <3>2. (IF file = None THEN NoFile ELSE file) \in Files
      BY NothingStashed
    <3>3. prefs' \in [Devs -> Stash \cup {None}] /\ selKey' \in Devs \cup {None}
      BY <3>1, <3>2 DEF Files
    <3>4. QED
      BY <2>8, <3>3 DEF Restart
  <2>9. CASE UNCHANGED devVars
    BY <2>9
  <2>10. QED
    BY <2>1, <2>2, <2>3, <2>4, <2>5, <2>6, <2>7, <2>8, <2>9 DEF DevNext
<1>3. QED
  BY <1>1, <1>2, PTL DEF DevSpec

-----------------------------------------------------------------------------
(* The selection, the stash, the table and the file.                       *)

LEMMA SelectionInv == DevSpec => []Selection
<1>1. DevInit => Selection
  BY DEF DevInit, Selection
<1>2. DevTypeOK /\ Selection /\ [DevNext]_devVars => Selection'
  <2> SUFFICES ASSUME DevTypeOK, Selection, [DevNext]_devVars PROVE Selection'
    OBVIOUS
  <2> USE DevicesAssumption DEF DevTypeOK, Selection
  <2>1. ASSUME NEW list \in SUBSET Devs, ScanResult(list) PROVE Selection'
    <3>1. /\ unsaved' = unsaved \cap list /\ devices' = list /\ pc = "up" /\ pc' = pc
          /\ sel \in list => sel' = sel
          /\ selKey' = IF sel' = None THEN selKey ELSE sel'
      BY <2>1 DEF ScanResult
    <3>2. QED
      BY <3>1
  <2>2. ASSUME NEW d \in Devs, Select(d) PROVE Selection'
    BY <2>2 DEF Select
  <2>3. ASSUME NEW s \in Setups, Edit(s) PROVE Selection'
    BY <2>3 DEF Edit
  <2>4. ASSUME NEW r \in Rates, PickRate(r) PROVE Selection'
    BY <2>4 DEF PickRate
  <2>5. ASSUME NEW quit \in BOOLEAN, BeginSave(quit) PROVE Selection'
    BY <2>5 DEF BeginSave
  <2>6. CASE EndSave
    <3>1. CASE quitting
      <4>1. Gone
        BY <2>6, <3>1, Zenon DEF EndSave
      <4>2. QED
        BY <4>1 DEF Gone
    <3>2. CASE ~quitting
      <4>1. UNCHANGED << memory, unsaved >> /\ pc' = "up"
        BY <2>6, <3>2, Zenon DEF EndSave
      <4>2. QED
        BY <4>1
    <3>3. QED
      BY <3>1, <3>2
  <2>7. CASE Kill
    BY <2>7 DEF Kill, Gone
  <2>8. CASE Restart
    BY <2>8 DEF Restart
  <2>9. CASE UNCHANGED devVars
    BY <2>9
  <2>10. QED
    BY <2>1, <2>2, <2>3, <2>4, <2>5, <2>6, <2>7, <2>8, <2>9 DEF DevNext
<1>3. QED
  BY <1>1, <1>2, DevTypeCorrect, PTL DEF DevSpec

\* What a step leaves alone is remembered as before.
Kept == Stashed /\ Written /\ SetupKept

LEMMA KeptInv == DevSpec => []Kept
<1>1. DevInit => Kept
  BY DEF DevInit, Kept, Stashed, Written, SetupKept, Remembers, NoFile
<1>2. DevTypeOK /\ Selection /\ Kept /\ [DevNext]_devVars => Kept'
  <2> SUFFICES ASSUME DevTypeOK, Selection, Kept, [DevNext]_devVars PROVE Kept'
    OBVIOUS
  <2> Stashed /\ Written /\ SetupKept
    BY DEF Kept
  <2> USE DevicesAssumption
  <2>1. ASSUME NEW list \in SUBSET Devs, ScanResult(list) PROVE Kept'
    <3>1. /\ \A d \in Devs : /\ d \in list \cap devices => setup'[d] = setup[d]
                             /\ d \in list \ devices => setup'[d] = Recalled(d)
          /\ devices' = list /\ pc = "up" /\ pc' = pc
          /\ dropped' = dropped \cup ((devices \ list) \cap unsaved)
          /\ unsaved' = unsaved \cap list
          /\ UNCHANGED << prefs, file, chosen, unwritten >>
      BY <2>1 DEF ScanResult
    <3>2. Stashed'
      BY <3>1 DEF Stashed, Selection, Remembers
    <3>3. Written'
      BY <3>1 DEF Written, Remembers
    <3>4. SetupKept'
      <4> SUFFICES ASSUME NEW d \in list, chosen[d] # None, d \notin dropped'
                   PROVE  setup'[d] = chosen[d]
        BY <3>1 DEF SetupKept
      <4>1. CASE d \in devices
        <5>1. setup'[d] = setup[d] /\ d \notin dropped
          BY <3>1, <4>1
        <5>2. QED
          BY <4>1, <5>1 DEF SetupKept
      <4>2. CASE d \notin devices
        <5>1. Remembers(prefs, d) /\ d \notin dropped
          BY <3>1, <4>2 DEF Selection, Stashed
        <5>2. Recalled(d) = chosen[d]
          BY <5>1 DEF Remembers, Recalled
        <5>3. QED
          BY <3>1, <4>2, <5>2
      <4>3. QED
        BY <4>1, <4>2
    <3>5. QED
      BY <3>2, <3>3, <3>4 DEF Kept
  <2>2. ASSUME NEW d \in Devs, Select(d) PROVE Kept'
    <3>1. /\ pc = "up" /\ prefs' = Harvested
          /\ UNCHANGED << devices, setup, file, pc, chosen, unwritten, dropped >>
      BY <2>2 DEF Select
    <3>2. \A e \in Devs : Remembers(Harvested, e)
      BY <3>1, HarvestRemembers
    <3>3. QED
      BY <3>1, <3>2 DEF Kept, Stashed, Written, SetupKept, Remembers
  <2>3. ASSUME NEW s \in Setups, Edit(s) PROVE Kept'
    <3>1. sel \in devices /\ sel \in Devs
      BY <2>3 DEF Edit, DevTypeOK
    <3>2. /\ chosen'[sel] = s /\ setup'[sel] = s
          /\ \A d \in Devs \ {sel} : chosen'[d] = chosen[d] /\ setup'[d] = setup[d]
          /\ pc = "up" /\ dropped' = dropped \ {sel}
          /\ unsaved' = unsaved \cup {sel} /\ unwritten' = unwritten \cup {sel}
          /\ UNCHANGED << devices, prefs, file, pc >>
      BY <2>3, <3>1 DEF Edit, DevTypeOK
    <3>3. Stashed'
      BY <3>2 DEF Stashed, Remembers
    <3>4. Written'
      BY <3>2 DEF Written, Remembers
    <3>5. SetupKept'
      BY <3>1, <3>2 DEF SetupKept, DevTypeOK
    <3>6. QED
      BY <3>3, <3>4, <3>5 DEF Kept
  <2>4. ASSUME NEW r \in Rates, PickRate(r) PROVE Kept'
    BY <2>4 DEF PickRate, Kept, Stashed, Written, SetupKept, Remembers
  <2>5. ASSUME NEW quit \in BOOLEAN, BeginSave(quit) PROVE Kept'
    <3>1. /\ pc = "up" /\ prefs' = Harvested /\ file' = None /\ pc' = "saving"
          /\ UNCHANGED << devices, setup, chosen, unwritten, dropped >>
      BY <2>5 DEF BeginSave
    <3>2. \A e \in Devs : Remembers(Harvested, e)
      BY <3>1, HarvestRemembers
    <3>3. QED
      BY <3>1, <3>2 DEF Kept, Stashed, Written, SetupKept, Remembers
  <2>6. CASE EndSave
    <3>1. /\ \A d \in Devs : Remembers(prefs, d)
          /\ file' = [prefs |-> prefs, selKey |-> selKey] /\ file' # None
          /\ UNCHANGED << chosen, dropped >>
      BY <2>6, FileTyped DEF EndSave, Selection, Stashed
    <3>2. Written'
      BY <3>1 DEF Written, Remembers
    <3>3. CASE quitting
      <4>1. Gone
        BY <2>6, <3>3, Zenon DEF EndSave
      <4>2. QED
        BY <3>2, <4>1 DEF Gone, Kept, Stashed, SetupKept
    <3>4. CASE ~quitting
      <4>1. UNCHANGED << memory, unsaved >>
        BY <2>6, <3>4, Zenon DEF EndSave
      <4>2. QED
        BY <3>1, <3>2, <4>1 DEF Kept, Stashed, SetupKept, Remembers
    <3>5. QED
      BY <3>3, <3>4
  <2>7. CASE Kill
    <3>1. /\ \A d \in Devs : chosen'[d] = IF file = None \/ d \in unwritten THEN None
                                         ELSE chosen[d]
          /\ devices' = {} /\ pc' = "down" /\ unwritten' = {}
          /\ UNCHANGED << file, dropped >>
      BY <2>7 DEF Kill, Gone
    <3>2. Written'
      BY <3>1 DEF Written, Remembers
    <3>3. QED
      BY <3>1, <3>2 DEF Kept, Stashed, SetupKept
  <2>8. CASE Restart
    <3>1. /\ prefs' = (IF file = None THEN NoFile ELSE file).prefs
          /\ pc = "down" /\ pc' = "up"
          /\ UNCHANGED << devices, setup, file, chosen, unsaved, unwritten, dropped >>
      BY <2>8, Zenon DEF Restart
    <3>2. \A d \in Devs : Remembers(prefs', d)
      BY <3>1 DEF Selection, Written, Remembers
    <3>3. QED
      BY <3>1, <3>2 DEF Kept, Stashed, Written, SetupKept, Remembers
  <2>9. CASE UNCHANGED devVars
    BY <2>9 DEF Kept, Stashed, Written, SetupKept, Remembers
  <2>10. QED
    BY <2>1, <2>2, <2>3, <2>4, <2>5, <2>6, <2>7, <2>8, <2>9 DEF DevNext
<1>3. QED
  BY <1>1, <1>2, DevTypeCorrect, SelectionInv, PTL DEF DevSpec

-----------------------------------------------------------------------------
(* A clean exit.                                                           *)

\* Leaving stays true of a step that changes nothing it speaks of.
LEMMA LeavingFrame ==
  ASSUME Leaving, UNCHANGED << devices, sel, selKey, prefs, file, pc, quitting, left >>
  PROVE  Leaving'
BY DEF Leaving, Quit

LEMMA LeavingInv == DevSpec => []Leaving
<1>1. DevInit => Leaving
  BY DEF DevInit, Leaving
<1>2. DevTypeOK /\ Selection /\ Leaving /\ [DevNext]_devVars => Leaving'
  <2> SUFFICES ASSUME DevTypeOK, Selection, Leaving, [DevNext]_devVars
               PROVE  Leaving'
    OBVIOUS
  <2> USE DevicesAssumption
  <2>1. ASSUME NEW list \in SUBSET Devs, ScanResult(list) PROVE Leaving'
    <3>1. CASE list = {}
      <4>1. /\ devices' = {} /\ sel' = None /\ selKey' = selKey /\ pc = "up"
            /\ UNCHANGED << prefs, file, pc, quitting, left >>
        BY <2>1, <3>1 DEF ScanResult
      <4>2. QED
        BY <4>1 DEF Leaving, Quit
    <3>2. CASE list # {}
      BY <2>1, <3>2 DEF ScanResult, Leaving
    <3>3. QED
      BY <3>1, <3>2
  <2>2. ASSUME NEW d \in Devs, Select(d) PROVE Leaving'
    BY <2>2 DEF Select, Leaving
  <2>3. ASSUME NEW s \in Setups, Edit(s) PROVE Leaving'
    BY <2>3 DEF Edit, Leaving
  <2>4. ASSUME NEW r \in Rates, PickRate(r) PROVE Leaving'
    BY <2>4 DEF PickRate, Leaving
  <2>5. ASSUME NEW quit \in BOOLEAN, BeginSave(quit) PROVE Leaving'
    <3>1. /\ pc = "up" /\ pc' = "saving" /\ prefs' = Harvested /\ quitting' = quit
          /\ UNCHANGED << devices, sel, selKey >>
      BY <2>5 DEF BeginSave
    <3>2. CASE quit /\ sel # None
      <4>1. left' = [dev |-> sel, setup |-> setup[sel], rate |-> rate]
        BY <2>5, <3>2 DEF BeginSave
      <4>2. sel \in Devs /\ left' \in [dev : Devs, setup : Setups, rate : Rates]
        BY <3>2, <4>1 DEF DevTypeOK
      <4>3. prefs'[sel] = [setup |-> setup[sel], rate |-> rate] /\ selKey = sel
        BY <3>1, <3>2, HarvestKeeps DEF Selection
      <4>4. QED
        BY <3>1, <3>2, <4>1, <4>2, <4>3 DEF Leaving, Quit
    <3>3. CASE ~(quit /\ sel # None)
      <4>1. left' = left
        BY <2>5, <3>3 DEF BeginSave
      <4>2. CASE left = None
        BY <4>1, <4>2 DEF Leaving
      <4>3. CASE left # None
        <5>1. sel = None /\ devices = {} /\ left.dev \in Devs
          BY <3>1, <4>3 DEF Leaving
        <5>2. prefs' = prefs
          BY <3>1, <5>1 DEF Harvested
        <5>3. QED
          BY <3>1, <4>1, <4>3, <5>1, <5>2 DEF Leaving, Quit
      <4>4. QED
        BY <4>2, <4>3
    <3>4. QED
      BY <3>2, <3>3
  <2>6. CASE EndSave
    <3>1. /\ file' = [prefs |-> prefs, selKey |-> selKey] /\ file' # None
          /\ pc = "saving" /\ left' = left
      BY <2>6, FileTyped DEF EndSave
    <3>2. CASE quitting
      <4>1. Gone
        BY <2>6, <3>2, Zenon DEF EndSave
      <4>2. QED
        BY <3>1, <4>1 DEF Gone, Leaving, Quit
    <3>3. CASE ~quitting
      <4>1. UNCHANGED << memory, quitting >> /\ pc' = "up"
        BY <2>6, <3>3, Zenon DEF EndSave
      <4>2. QED
        BY <3>1, <3>3, <4>1 DEF Leaving, Quit
    <3>4. QED
      BY <3>2, <3>3
  <2>7. CASE Kill
    BY <2>7 DEF Kill, Leaving
  <2>8. CASE Restart
    <3>1. /\ prefs' = (IF file = None THEN NoFile ELSE file).prefs
          /\ selKey' = (IF file = None THEN NoFile ELSE file).selKey
          /\ pc = "down" /\ pc' = "up"
          /\ UNCHANGED << devices, sel, file, left >>
      BY <2>8, Zenon DEF Restart
    <3>2. QED
      BY <3>1 DEF Leaving, Quit, Selection
  <2>9. CASE UNCHANGED devVars
    BY <2>9, LeavingFrame
  <2>10. QED
    BY <2>1, <2>2, <2>3, <2>4, <2>5, <2>6, <2>7, <2>8, <2>9 DEF DevNext
<1>3. QED
  BY <1>1, <1>2, DevTypeCorrect, SelectionInv, PTL DEF DevSpec

-----------------------------------------------------------------------------
(* The theorems.                                                           *)

\* What the device table shows is what the user chose last, over any scans,
\* selections, saves, kills and restarts, with the exceptions SetupKept names
\* (app.cpp: harvest_device_prefs, apply_device_prefs, the SCAN_RESULT merge).
THEOREM SetupIsKept == DevSpec => []SetupKept
<1>1. Kept => SetupKept
  BY DEF Kept
<1>2. QED
  BY <1>1, KeptInv, PTL

\* After a kill only what the file did not have is forgotten: what is stashed
\* and what is written is what the user chose.
THEOREM StashIsKept == DevSpec => [](Stashed /\ Written)
<1>1. Kept => Stashed /\ Written
  BY DEF Kept
<1>2. QED
  BY <1>1, KeptInv, PTL

\* The first scan after a clean exit that lists the device selected then brings
\* back the selection, its setup and its rate.
THEOREM QuitIsRestored == DevSpec => QuitRestores
<1>1. DevTypeOK /\ Leaving /\ [DevNext]_devVars =>
        (pc = "up" /\ left # None /\ left.dev \in devices'
           => /\ sel' = left.dev
              /\ setup'[left.dev] = left.setup
              /\ rate' = left.rate)
  <2> SUFFICES ASSUME DevTypeOK, Leaving, [DevNext]_devVars,
                      pc = "up", left # None, left.dev \in devices'
               PROVE  /\ sel' = left.dev
                      /\ setup'[left.dev] = left.setup
                      /\ rate' = left.rate
    OBVIOUS
  <2>1. /\ left \in [dev : Devs, setup : Setups, rate : Rates]
        /\ prefs[left.dev] = [setup |-> left.setup, rate |-> left.rate]
        /\ selKey = left.dev /\ devices = {} /\ sel = None
    BY DEF Leaving, Quit
  <2>2. devices' # devices
    BY <2>1
  <2>3. PICK list \in SUBSET Devs : ScanResult(list)
    BY <2>1, <2>2 DEF DevNext, Select, Edit, PickRate, BeginSave, EndSave, Kill,
                      Restart, Gone
  <2>4. left.dev \in list /\ left.dev \in Devs
    BY <2>1, <2>3 DEF ScanResult
  <2>5. prefs[left.dev] # None
    BY <2>1, DevicesAssumption DEF Stash
  <2>6. sel' = left.dev /\ rate' = left.rate
    BY <2>1, <2>3, <2>4, <2>5, DevicesAssumption DEF ScanResult
  <2>7. setup'[left.dev] = Recalled(left.dev)
    BY <2>1, <2>3, <2>4 DEF ScanResult
  <2>8. Recalled(left.dev) = left.setup
    BY <2>1, <2>5 DEF Recalled
  <2>9. QED
    BY <2>6, <2>7, <2>8
<1>2. QED
  BY <1>1, DevTypeCorrect, LeavingInv, PTL DEF DevSpec, QuitRestores
=============================================================================

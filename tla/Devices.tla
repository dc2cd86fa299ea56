------------------------------ MODULE Devices ------------------------------
(***************************************************************************)
(* The device list of sonview and what it remembers of each device          *)
(* (client/src/app.cpp): the live setup of the listed devices, the setups   *)
(* stashed under a device's key (device_prefs_), the settings file, and the *)
(* merge of a SCAN_RESULT into all that.  One thread, the UI thread; the    *)
(* program may be killed at any point, also while it writes the file.       *)
(*                                                                         *)
(* The setup of a device stands for the enables and triggers of all its     *)
(* channels.  The sample rate is one widget for whichever device is         *)
(* selected.  What a scan lists is up to the server and the cables.         *)
(***************************************************************************)
EXTENDS Naturals, FiniteSets

CONSTANTS
    Devs,     \* dev_key() of the devices there are
    Setups,   \* what a user can choose for a device
    Default,  \* the setup of a device never seen: its logic channels enabled
    Rates,    \* samplerate_idx_, 0 in a new process
    None      \* no device selected, nothing stashed, chosen or readable

\* What is stashed of a device, and what the file holds.
Stash == [setup : Setups, rate : Rates]
Files == [prefs : [Devs -> Stash \cup {None}], selKey : Devs \cup {None}]

ASSUME DevicesAssumption ==
    /\ Default \in Setups /\ 0 \in Rates
    /\ None \notin Devs /\ None \notin Setups /\ None \notin Stash
    /\ None \notin Files

VARIABLES
    devices,  \* devices_, by key
    setup,    \* what devices_ holds of each
    sel,      \* sel_dev_
    selKey,   \* sel_dev_key_
    rate,     \* samplerate_idx_
    prefs,    \* device_prefs_
    file,     \* the settings file, None when its JSON is incomplete
    pc,       \* "up", "saving" between fopen and fclose, "down"
    quitting, \* the save is the one of the destructor
    chosen,   \* ghost: what the user last chose for each device, None once a
              \* kill has taken a choice the file did not have
    unsaved,  \* ghost: devices whose choice prefs does not have
    unwritten,\* ghost: devices whose choice the file does not have
    dropped,  \* ghost: devices that were unlisted while their choice was unsaved
    left      \* ghost: what was selected when the program quit, until a scan

memory   == << devices, setup, sel, selKey, rate, prefs >>
devGhost == << chosen, unsaved, unwritten, dropped, left >>
devVars  == << memory, file, pc, quitting, devGhost >>

NoFile == [prefs |-> [d \in Devs |-> None], selKey |-> None]

DevInit ==
    /\ devices = {} /\ setup = [d \in Devs |-> Default]
    /\ sel = None /\ selKey = None /\ rate = 0
    /\ prefs = NoFile.prefs /\ file = NoFile
    /\ pc = "up" /\ quitting = FALSE
    /\ chosen = [d \in Devs |-> None] /\ unsaved = {} /\ unwritten = {}
    /\ dropped = {} /\ left = None

-----------------------------------------------------------------------------
(* Stashing and recalling the setup of a device.                           *)

\* A mutant: the rate is not stashed.
HarvestedSetup == IF sel = None THEN prefs
                  ELSE [prefs EXCEPT ![sel] = [setup |-> setup[sel], rate |->
                           IF prefs[sel] = None THEN rate ELSE prefs[sel].rate]]

\* harvest_device_prefs(): the selected device, with the rate of the widget.
Harvested == IF sel = None THEN prefs
             ELSE [prefs EXCEPT ![sel] = [setup |-> setup[sel], rate |-> rate]]

\* apply_device_prefs().
Recalled(d) == IF prefs[d] = None THEN Default ELSE prefs[d].setup

-----------------------------------------------------------------------------
(* What the UI thread does.                                                *)

\* A mutant: a device listed before is set up from what was stashed.
ScanResultRecalls(list) ==
    /\ pc = "up"
    /\ \E first \in IF list = {} THEN {None} ELSE list :
         /\ setup' = [d \in Devs |-> IF d \in list THEN Recalled(d) ELSE Default]
         /\ sel' = IF sel \in list THEN sel ELSE first
         /\ selKey' = IF sel' = None THEN selKey ELSE sel'
         /\ rate' = IF sel' # None /\ prefs[sel'] # None THEN prefs[sel'].rate
                    ELSE rate
    /\ devices' = list
    /\ dropped' = dropped \cup ((devices \ list) \cap unsaved)
    /\ unsaved' = unsaved \cap list
    /\ left' = IF list = {} THEN left ELSE None
    /\ UNCHANGED << prefs, file, pc, quitting, chosen, unwritten >>

\* SCAN_RESULT: a device listed before keeps its live setup, another gets the
\* stashed one; the selection follows the key, or falls to the first device.
ScanResult(list) ==
    /\ pc = "up"
    /\ LET want == IF sel = None THEN selKey ELSE sel
       IN  \E first \in IF list = {} THEN {None} ELSE list :
             /\ setup' = [d \in Devs |->
                   CASE d \in list \cap devices -> setup[d]
                     [] d \in list \ devices    -> Recalled(d)
                     [] OTHER                   -> Default]
             /\ sel' = IF want \in list THEN want ELSE first
             /\ selKey' = IF sel' = None THEN selKey ELSE sel'
             /\ rate' = IF sel' # None /\ prefs[sel'] # None
                        THEN prefs[sel'].rate ELSE rate
    /\ devices' = list
    /\ dropped' = dropped \cup ((devices \ list) \cap unsaved)
    /\ unsaved' = unsaved \cap list
    /\ left' = IF list = {} THEN left ELSE None
    /\ UNCHANGED << prefs, file, pc, quitting, chosen, unwritten >>

\* The device combo: the setup of the device left is stashed.
Select(d) ==
    /\ pc = "up" /\ d \in devices /\ d # sel
    /\ prefs' = Harvested
    /\ unsaved' = unsaved \ {sel}
    /\ sel' = d /\ selKey' = d
    /\ UNCHANGED << devices, setup, rate, file, pc, quitting, chosen,
                    unwritten, dropped, left >>

\* The channel table: enables and triggers of the selected device.
Edit(s) ==
    /\ pc = "up" /\ sel # None
    /\ setup' = [setup EXCEPT ![sel] = s]
    /\ chosen' = [chosen EXCEPT ![sel] = s]
    /\ unsaved' = unsaved \cup {sel} /\ unwritten' = unwritten \cup {sel}
    /\ dropped' = dropped \ {sel}
    /\ UNCHANGED << devices, sel, selKey, rate, prefs, file, pc, quitting, left >>

PickRate(r) ==
    /\ pc = "up" /\ sel # None
    /\ rate' = r
    /\ UNCHANGED << devices, setup, sel, selKey, prefs, file, pc, quitting, devGhost >>

\* save_settings(), by a start, a rename, a connect or the destructor: stash
\* the selected device, open the file for writing ...
BeginSave(quit) ==
    /\ pc = "up"
    /\ prefs' = Harvested
    /\ unsaved' = unsaved \ {sel}
    /\ left' = IF quit /\ sel # None
               THEN [dev |-> sel, setup |-> setup[sel], rate |-> rate] ELSE left
    /\ file' = None /\ pc' = "saving" /\ quitting' = quit
    /\ UNCHANGED << devices, setup, sel, selKey, rate, chosen, unwritten,
                    dropped >>

\* The process has ended, and its memory with it.
Gone ==
    /\ devices' = {} /\ setup' = [d \in Devs |-> Default] /\ sel' = None
    /\ selKey' = None /\ prefs' = NoFile.prefs /\ rate' = 0
    /\ unsaved' = {} /\ unwritten' = {}
    /\ pc' = "down" /\ quitting' = FALSE

\* ... and write it.
EndSave ==
    /\ pc = "saving"
    /\ file' = [prefs |-> prefs, selKey |-> selKey]
    /\ IF quitting THEN Gone
       ELSE /\ unwritten' = unsaved /\ pc' = "up"
            /\ UNCHANGED << memory, unsaved, quitting >>
    /\ UNCHANGED << chosen, dropped, left >>

\* The process is killed.
Kill ==
    /\ pc \in {"up", "saving"}
    /\ chosen' = [d \in Devs |-> IF file = None \/ d \in unwritten THEN None
                                ELSE chosen[d]]
    /\ Gone
    /\ left' = None
    /\ UNCHANGED << file, dropped >>

\* The constructor: load_settings() into a program that lists nothing yet; a
\* torn file is a parse error and leaves the defaults.
Restart ==
    /\ pc = "down"
    /\ LET f == IF file = None THEN NoFile ELSE file
       IN  prefs' = f.prefs /\ selKey' = f.selKey
    /\ pc' = "up"
    /\ UNCHANGED << devices, setup, sel, rate, file, quitting, devGhost >>

DevNext ==
    \/ \E list \in SUBSET Devs : ScanResult(list)
    \/ \E d \in Devs : Select(d)
    \/ \E s \in Setups : Edit(s)
    \/ \E r \in Rates : PickRate(r)
    \/ \E quit \in BOOLEAN : BeginSave(quit)
    \/ EndSave
    \/ Kill
    \/ Restart

DevSpec == DevInit /\ [][DevNext]_devVars

-----------------------------------------------------------------------------
(* Properties.                                                             *)

\* What sel_dev_ is an index into is the list shown; a device is stashed whole.
DevTypeOK ==
    /\ devices \subseteq Devs /\ setup \in [Devs -> Setups]
    /\ sel \in devices \cup {None} /\ selKey \in Devs \cup {None} /\ rate \in Rates
    /\ prefs \in [Devs -> Stash \cup {None}] /\ file \in Files \cup {None}
    /\ pc \in {"up", "saving", "down"} /\ quitting \in BOOLEAN
    /\ chosen \in [Devs -> Setups \cup {None}]
    /\ unsaved \subseteq Devs /\ unwritten \subseteq Devs /\ dropped \subseteq Devs

\* What the table shows for a device is the last choice the user made for it,
\* over rescans, reconnects, changes of the selection and restarts.  The
\* exceptions are a device unlisted by a scan while its choice was in the table
\* only, and what a kill takes with it: what the file did not have.
SetupKept == \A d \in devices : chosen[d] = None \/ setup[d] = chosen[d]
                                \/ d \in dropped

\* Channel and trigger state survives reconnects and rescans (README.md:113):
\* unplug, rescan, plug in and rescan included.
SetupSurvivesRescan ==
    \A d \in devices : chosen[d] = None \/ setup[d] = chosen[d]

\* If the first scan after a clean exit lists the device selected then, it
\* brings back the selection, its setup and its rate, through the harvest, the
\* file, the load and the merge.
QuitRestores ==
    [][(pc = "up" /\ left # None /\ left.dev \in devices')
       => /\ sel' = left.dev
          /\ setup'[left.dev] = left.setup
          /\ rate' = left.rate]_devVars
=============================================================================

---------------------------- MODULE OtaWorkflow ----------------------------
(***************************************************************************)
(* The over-the-air workflows (OTAWorkflowService): for each device the    *)
(* host opens its access point by a CONFIG over LoRa, joins it with its    *)
(* own Wi-Fi through NetworkManager, sees by /json/info that it is the     *)
(* device meant, uploads files and firmware, and closes the access point;  *)
(* in the end the host's Wi-Fi is as it was.  Or, for one device, the host *)
(* downloads its presets.                                                  *)
(*                                                                         *)
(* Every call out of the process is one step, with what it may come to:    *)
(* a CONFIG or its ACK is lost, nmcli fails, an answer of the node is      *)
(* lost after it acted, the node is locked, or refuses the image.  Between *)
(* two calls the host may be moved to another access point of a name it    *)
(* knows, and somebody may switch the radio.  The node and the Wi-Fi are   *)
(* not under src/: they are what the code expects of them.                 *)
(***************************************************************************)
EXTENDS Naturals, Sequences, FiniteSets, SequencesExt

CONSTANTS
  Devices,
  SsidOf,      \* the name of each device's access point
  Candidates,  \* the names the request lists, in order of preference
  Jobs,        \* the requests: kind, macs, ops, stop, enable and restore
  Retries,     \* retries of a firmware upload, from the request
  Locked,      \* devices with the OTA lock, opened by the password known
  MaxJobs,     \* bound: requests
  MaxFaults    \* bound: losses, failures and interventions

Elsewhere == "elsewhere"   \* in no access point of a device

ASSUME OtaAssumption ==
  /\ SsidOf \in [Devices -> ToSet(Candidates)]
  /\ Retries \in 1..10 /\ Locked \subseteq Devices
  /\ MaxJobs \in Nat /\ MaxFaults \in Nat
  /\ Elsewhere \notin Devices
  /\ Jobs \subseteq [kind : {"firmware", "download"}, macs : Seq(Devices),
                    ops : SUBSET {"presets", "cfg", "fw"},
                    stop : BOOLEAN, enable : BOOLEAN, restore : BOOLEAN]
  /\ \A j \in Jobs : j.macs # <<>>

VARIABLES
  job,      \* the request the task works on
  at,       \* where the task is
  idx,      \* the device it is at
  todo,     \* operations left for that device
  attempt,  \* attempts of the firmware made
  initial,  \* host_wifi_initial
  enabled,  \* results["hostWifi"]["enabled"]
  ssid,     \* last_connected_ssid
  res,      \* what results["devices"] says of each device
  ok        \* results["ok"]

VARIABLES
  radio,    \* the host's Wi-Fi radio
  peer,     \* whose access point the host is in, or Elsewhere
  profiles, \* names NetworkManager has a profile of
  ap,       \* access points that are open
  held,     \* what each device was given
  locked,   \* devices whose OTA lock is on
  faults, jobs

VARIABLES   \* history
  before,   \* the radio when the request came
  moved,    \* the host changed access points since it saw the device
  unread,   \* the page that answers the image could not be read
  meddled,  \* nmcli failed, or somebody switched the radio
  deaf      \* devices that lost the CONFIG that closes the access point

work    == <<job, idx, todo, attempt, initial, enabled, ssid, res, ok>>
host    == <<radio, peer, profiles>>
nodes   == <<ap, held, locked>>
bounds  == <<faults, jobs>>
history == <<before, moved, unread, meddled, deaf>>
vars    == <<work, at, host, nodes, bounds, history>>

NoSsid == "none"
NoJob == [kind |-> "none", macs |-> <<>>, ops |-> {}, stop |-> FALSE,
          enable |-> FALSE, restore |-> FALSE]

Fault == faults < MaxFaults /\ faults' = faults + 1
Dev   == job.macs[idx]
First(names) == SelectSeq(Candidates, LAMBDA s : s \in names)[1]

(* Where the host may find itself when it is in no access point it chose:  *)
(* NetworkManager joins any it has a profile of.                           *)
Reachable(aps) == {Elsewhere} \cup {d \in aps : SsidOf[d] \in profiles}

(* The access point of d closes, or not, and the host with it.             *)
Closing(d) ==
  /\ ap' = ap \ {d}
  /\ IF peer = d THEN peer' \in Reachable(ap') /\ moved' = TRUE
                 ELSE UNCHANGED <<peer, moved>>

-----------------------------------------------------------------------------
(* Failure of a device, of the download, or of the whole.                  *)
Failing ==
  IF job.kind = "download" THEN
    ok' = FALSE /\ at' = "restore" /\ UNCHANGED res
  ELSE
    res' = [res EXCEPT ![Dev] = "failed"] /\ at' = "close" /\ UNCHANGED ok

Going(to) == at' = to /\ UNCHANGED <<res, ok>>

(* Mutant: a wait without its deadline.                                    *)
TimedOutNever == UNCHANGED <<at, res, ok>>

(* The deadline of wait_for_expected_node.                                 *)
TimedOut == Failing

(* Mutant: the radio is asked after it was switched on.                    *)
InitialLate(seen, j) == seen \/ j.enable

(* host_wifi_initial.                                                      *)
Initial(seen, j) == seen

(* The request is taken; an nmcli that fails says the radio is off.        *)
Start(j) ==
  /\ at = "idle" /\ jobs < MaxJobs /\ jobs' = jobs + 1
  /\ \E seen \in {radio, FALSE} :
       /\ IF seen = radio THEN UNCHANGED faults ELSE Fault
       /\ meddled' = (seen # radio)
       /\ initial' = Initial(seen, j) /\ enabled' = seen
       /\ at' = IF j.enable /\ ~seen THEN "switch"
                ELSE IF j.kind = "download" THEN "open" ELSE "next"
  /\ job' = j /\ idx' = IF j.kind = "download" THEN 1 ELSE 0
  /\ todo' = {} /\ attempt' = 0 /\ ssid' = NoSsid
  /\ res' = [d \in Devices |-> "none"] /\ ok' = TRUE
  /\ held' = [d \in Devices |-> {}]
  /\ before' = radio /\ moved' = FALSE /\ unread' = FALSE /\ deaf' = {}
  /\ UNCHANGED <<host, ap, locked>>

(* _ensure_wifi_ready: the radio, then the interface.                      *)
SwitchOn ==
  /\ at = "switch"
  /\ \/ /\ radio' = TRUE /\ enabled' = TRUE
        /\ Going(IF job.kind = "download" THEN "open" ELSE "next")
        /\ UNCHANGED <<faults, meddled>>
     \/ /\ Fault /\ meddled' = TRUE
        /\ radio' \in {radio, TRUE} /\ ok' = FALSE /\ at' = "restore"
        /\ UNCHANGED <<enabled, res>>
  /\ UNCHANGED <<job, idx, todo, attempt, initial, ssid, peer, profiles,
                 nodes, jobs, before, moved, unread, deaf>>

(* The loop over the addresses, and its end.                               *)
NextDevice ==
  /\ at = "next"
  /\ IF idx = Len(job.macs)
     THEN at' = "restore" /\ UNCHANGED <<idx, todo, res>>
     ELSE /\ idx' = idx + 1 /\ todo' = job.ops /\ at' = "open"
          /\ res' = [res EXCEPT ![job.macs[idx + 1]] = "listed"]
  /\ attempt' = 0 /\ moved' = FALSE /\ unread' = FALSE
  /\ UNCHANGED <<job, initial, enabled, ssid, ok, host, nodes, bounds,
                 before, meddled, deaf>>

(* CONFIG 0x04 = 1, and its ACK waited for.                                *)
OpenAp ==
  /\ at = "open"
  /\ \/ ap' = ap \cup {Dev} /\ Going("join") /\ UNCHANGED faults
     \/ Fault /\ ap' \in {ap, ap \cup {Dev}} /\ Failing
  /\ UNCHANGED <<job, idx, todo, attempt, initial, enabled, ssid, host, held,
                 locked, jobs, history>>

(* connect_ap.  An interface whose radio is off never becomes ready.  Of   *)
(* the names that are seen the first candidate is joined, with its profile *)
(* made anew (_delete_profile_if_exists): the access point of any device   *)
(* with the name; or the host gives up, the old profile deleted or not.    *)
(* The radio may go off between the list and the connect: nmcli says so,   *)
(* and unless the workflow switched it on before, it is switched on and    *)
(* the connect tried once more.                                            *)
JoinAp ==
  /\ at \in {"join", "rejoin"}
  /\ \/ ~radio /\ Failing /\ UNCHANGED <<host, ssid, faults, meddled>>
     \/ /\ radio
        /\ \E seen \in SUBSET {SsidOf[d] : d \in ap} \ {{}} :
             \E d \in ap :
               /\ SsidOf[d] = First(seen)
               /\ peer' = d /\ ssid' = First(seen)
               /\ profiles' = profiles \cup {First(seen)}
        /\ Going("see") /\ UNCHANGED <<radio, faults, meddled>>
     \/ /\ radio /\ Fault /\ Failing
        /\ profiles' \in {profiles, profiles \ {SsidOf[Dev]}}
        /\ peer' \in {peer, Elsewhere} /\ UNCHANGED <<radio, ssid, meddled>>
     \/ /\ radio /\ Fault
        /\ radio' = FALSE /\ peer' = Elsewhere /\ meddled' = TRUE
        /\ profiles' = profiles \ {SsidOf[Dev]} /\ UNCHANGED ssid
        /\ IF at = "join" /\ job.enable /\ ~(enabled /\ ~initial)
           THEN Going("again") ELSE Failing
  /\ UNCHANGED <<job, idx, todo, attempt, initial, enabled, nodes, jobs,
                 before, moved, unread, deaf>>

(* The same service, once more after the radio was found disabled.         *)
SwitchOnAgain ==
  /\ at = "again"
  /\ \/ radio' = TRUE /\ enabled' = TRUE /\ Going("rejoin")
        /\ UNCHANGED <<faults, meddled>>
     \/ Fault /\ meddled' = TRUE
        /\ radio' \in {radio, TRUE} /\ enabled' \in {enabled, radio'}
        /\ Failing
  /\ UNCHANGED <<job, idx, todo, attempt, initial, ssid, peer, profiles,
                 nodes, jobs, before, moved, unread, deaf>>

(* Mutant: any WLED node will do.                                          *)
IsExpectedAny(d) == peer \in Devices

(* wait_for_expected_node compares the mac of /json/info.                  *)
IsExpected(d) == peer = d

SeeNode ==
  /\ at = "see"
  /\ \/ /\ IsExpected(Dev) /\ moved' = FALSE
        /\ Going(IF job.kind = "download" THEN "download" ELSE "upload")
        /\ UNCHANGED faults
     \/ ~IsExpected(Dev) /\ TimedOut /\ UNCHANGED <<faults, moved>>
     \/ Fault /\ Failing /\ UNCHANGED moved
  /\ UNCHANGED <<job, idx, todo, attempt, initial, enabled, ssid, host,
                 nodes, jobs, before, unread, meddled, deaf>>

-----------------------------------------------------------------------------
Given(op) == [held EXCEPT ![peer] = @ \cup {op}]

(* wled_upload_file: presets.json, then cfg.json, one POST each.           *)
UploadFile(op) ==
  /\ at = "upload" /\ op \in todo
  /\ op = "presets" \/ (op = "cfg" /\ "presets" \notin todo)
  /\ \/ /\ peer \in Devices /\ held' = Given(op) /\ todo' = todo \ {op}
        /\ UNCHANGED <<at, res, ok, faults>>
     \/ /\ Fault /\ peer \in Devices /\ held' \in {held, Given(op)}
        /\ Failing /\ UNCHANGED todo
     \/ peer \notin Devices /\ Failing /\ UNCHANGED <<held, todo, faults>>
  /\ UNCHANGED <<job, idx, attempt, initial, enabled, ssid, host, ap, locked,
                 jobs, history>>

(* The tries of run_firmware_update.                                       *)
MoreTries(made) == made < Retries

(* A try that failed; HTTP 500 and 503 end the tries.                      *)
TryFailed(made, final) ==
  IF MoreTries(made) /\ ~final THEN Going("upload") ELSE Failing

(* Mutant: what the page says of the image is not looked at.               *)
PageIsFailureNever == FALSE

(* _update_response_indicates_failure.                                     *)
PageIsFailure == TRUE

Finished == res' = [res EXCEPT ![Dev] = "ok"] /\ at' = "close" /\ UNCHANGED ok

(* The node writes the image and reboots: its access point may be closed   *)
(* then.                                                                   *)
Flashed ==
  /\ held' = Given("fw")
  /\ \/ UNCHANGED <<ap, peer, moved>>
     \/ Closing(peer)

(* POST /update: nobody is there; the node is locked; it takes the image;  *)
(* the answer, or the request, is lost; it refuses the image by HTTP 500   *)
(* or 503, or by a page of HTTP 200, which may not be readable, in which   *)
(* case it passes.                                                         *)
PostImage ==
  /\ at \in {"upload", "reupload"} /\ todo = {"fw"}
  /\ attempt' = IF at = "upload" THEN attempt + 1 ELSE attempt
  /\ \/ /\ peer \notin Devices
        /\ TryFailed(attempt', FALSE)
        /\ UNCHANGED <<held, ap, peer, moved, unread, faults>>
     \/ /\ peer \in Devices /\ peer \in locked
        /\ IF at = "upload" THEN Going("unlock") ELSE TryFailed(attempt', FALSE)
        /\ UNCHANGED <<held, ap, peer, moved, unread, faults>>
     \/ /\ peer \in Devices \ locked
        /\ \/ Flashed /\ Finished /\ UNCHANGED <<unread, faults>>
           \/ /\ Fault /\ TryFailed(attempt', FALSE) /\ UNCHANGED unread
              /\ Flashed \/ UNCHANGED <<held, ap, peer, moved>>
           \/ /\ Fault /\ TryFailed(attempt', TRUE)
              /\ UNCHANGED <<held, ap, peer, moved, unread>>
           \/ /\ Fault
              /\ IF PageIsFailure THEN TryFailed(attempt', FALSE) ELSE Finished
              /\ UNCHANGED <<held, ap, peer, moved, unread>>
           \/ /\ Fault /\ unread' = TRUE /\ Finished
              /\ UNCHANGED <<held, ap, peer, moved>>
  /\ UNCHANGED <<job, idx, todo, initial, enabled, ssid, radio, profiles,
                 locked, jobs, before, meddled, deaf>>

(* _wled_attempt_unlock: POST /settings/sec with the password; after it    *)
(* the image is posted once more within the same try.                      *)
Unlock ==
  /\ at = "unlock"
  /\ \/ /\ peer \in Devices /\ locked' = locked \ {peer} /\ Going("reupload")
        /\ UNCHANGED faults
     \/ Fault /\ locked' \in {locked, locked \ {peer}}
        /\ TryFailed(attempt, FALSE)
     \/ /\ peer \notin Devices /\ TryFailed(attempt, FALSE)
        /\ UNCHANGED <<locked, faults>>
  /\ UNCHANGED <<job, idx, todo, attempt, initial, enabled, ssid, host, ap,
                 held, jobs, history>>

(* No firmware, or no more than the files.                                 *)
FilesOnly ==
  /\ at = "upload" /\ todo = {} /\ Finished
  /\ UNCHANGED <<job, idx, todo, attempt, initial, enabled, ssid, host, nodes,
                 bounds, history>>

(* Mutant: the access point is closed on success only.                     *)
ClosesIfOk == res[Dev] = "ok"

(* The finally of the loop.                                                *)
Closes == TRUE

(* CONFIG 0x04 = 0, not waited for; then the next device, or the end.      *)
CloseAp ==
  /\ at = "close"
  /\ IF res[Dev] = "failed" /\ job.stop
     THEN ok' = FALSE /\ at' = "restore"
     ELSE at' = "next" /\ UNCHANGED ok
  /\ \/ /\ IF Closes THEN Closing(Dev) ELSE UNCHANGED <<ap, peer, moved>>
        /\ UNCHANGED <<deaf, faults>>
     \/ /\ Fault /\ Dev \in ap /\ deaf' = deaf \cup {Dev}
        /\ UNCHANGED <<ap, peer, moved>>
  /\ UNCHANGED <<job, idx, todo, attempt, initial, enabled, ssid, res, radio,
                 profiles, held, locked, jobs, before, unread, meddled>>

(* download_presets: the presets are saved here; the access point is       *)
(* closed after that, and whether it was is not looked at.                 *)
Download ==
  /\ at = "download"
  /\ \/ /\ peer \in Devices /\ held' = Given("taken")
        /\ res' = [res EXCEPT ![Dev] = "ok"] /\ at' = "restore"
        /\ \/ Closing(Dev) /\ UNCHANGED <<deaf, faults>>
           \/ /\ Fault /\ deaf' = {Dev} /\ UNCHANGED <<ap, peer, moved>>
        /\ UNCHANGED ok
     \/ /\ peer \notin Devices \/ UNCHANGED peer
        /\ IF peer \in Devices THEN Fault ELSE UNCHANGED faults
        /\ Failing /\ UNCHANGED <<held, ap, peer, moved, deaf>>
  /\ UNCHANGED <<job, idx, todo, attempt, initial, enabled, ssid, radio,
                 profiles, locked, jobs, before, unread, meddled>>

(* _restore_host_wifi: only if the radio was off in the beginning is the   *)
(* access point left and the radio switched off.                           *)
RestoreHostWifi ==
  /\ at = "restore" /\ at' = "idle"
  /\ \/ /\ job.restore /\ ~initial /\ radio
        /\ \/ /\ radio' = FALSE /\ enabled' = FALSE /\ peer' = Elsewhere
              /\ UNCHANGED <<ok, meddled, faults>>
           \/ /\ Fault /\ meddled' = TRUE /\ ok' = FALSE
              /\ peer' = (IF ssid = NoSsid THEN peer ELSE Elsewhere)
              /\ UNCHANGED <<radio, enabled>>
           \/ /\ Fault /\ meddled' = TRUE
              /\ UNCHANGED <<radio, enabled, peer, ok>>
     \/ /\ ~(job.restore /\ ~initial /\ radio)
        /\ UNCHANGED <<radio, enabled, peer, ok, meddled, faults>>
  /\ UNCHANGED <<job, idx, todo, attempt, initial, ssid, res, profiles, nodes,
                 jobs, before, moved, unread, deaf>>

-----------------------------------------------------------------------------
(* Not of the task: NetworkManager leaves for another access point, or     *)
(* somebody switches the radio.                                            *)
Roam ==
  /\ radio /\ Fault
  /\ \E where \in Reachable(ap) \ {peer} : peer' = where
  /\ moved' = TRUE
  /\ UNCHANGED <<work, at, radio, profiles, nodes, jobs, before, unread,
                 meddled, deaf>>

Toggle ==
  /\ Fault
  /\ radio' = ~radio /\ peer' = Elsewhere /\ moved' = TRUE /\ meddled' = TRUE
  /\ UNCHANGED <<work, at, profiles, nodes, jobs, before, unread, deaf>>

Init ==
  /\ job = NoJob /\ at = "idle" /\ idx = 0 /\ todo = {} /\ attempt = 0
  /\ initial = FALSE /\ enabled = FALSE /\ ssid = NoSsid
  /\ res = [d \in Devices |-> "none"] /\ ok = TRUE
  /\ radio \in BOOLEAN /\ peer = Elsewhere /\ profiles = {} /\ ap = {}
  /\ held = [d \in Devices |-> {}] /\ locked = Locked
  /\ faults = 0 /\ jobs = 0
  /\ before = radio /\ moved = FALSE /\ unread = FALSE /\ meddled = FALSE
  /\ deaf = {}

Work ==
  \/ SwitchOn \/ NextDevice \/ OpenAp \/ JoinAp \/ SwitchOnAgain \/ SeeNode
  \/ \E op \in {"presets", "cfg"} : UploadFile(op)
  \/ PostImage \/ Unlock \/ FilesOnly \/ CloseAp \/ Download
  \/ RestoreHostWifi

Next == Work \/ (\E j \in Jobs : Start(j)) \/ Roam \/ Toggle

(* The worker thread of the task runs; every call it makes has a timeout.  *)
Spec == Init /\ [][Next]_vars /\ WF_vars(Work)

-----------------------------------------------------------------------------
Places == {"idle", "switch", "next", "open", "join", "again", "rejoin", "see",
           "upload", "unlock", "reupload", "close", "download", "restore"}

TaskOK ==
  /\ job \in Jobs \cup {NoJob} /\ at \in Places
  /\ idx \in 0..Len(job.macs) /\ todo \subseteq job.ops
  /\ attempt \in 0..Retries
  /\ faults \in 0..MaxFaults /\ jobs \in 0..MaxJobs

FlagsOK ==
  /\ initial \in BOOLEAN /\ enabled \in BOOLEAN /\ ok \in BOOLEAN
  /\ radio \in BOOLEAN /\ before \in BOOLEAN /\ moved \in BOOLEAN
  /\ unread \in BOOLEAN /\ meddled \in BOOLEAN

HostOK ==
  /\ ap \subseteq Devices /\ deaf \subseteq Devices
  /\ peer \in ap \cup {Elsewhere} /\ (peer # Elsewhere => radio)
  /\ ssid \in ToSet(Candidates) \cup {NoSsid}
  /\ profiles \subseteq ToSet(Candidates)

NodesOK ==
  /\ locked \subseteq Locked
  /\ res \in [Devices -> {"none", "listed", "failed", "ok"}]
  /\ held \in [Devices -> SUBSET {"presets", "cfg", "fw", "taken"}]

(* Types; a firmware is posted Retries times at most, and the host is in   *)
(* access points that are open only.                                       *)
TypeOK == TaskOK /\ FlagsOK /\ HostOK /\ NodesOK

Wanted == IF job.kind = "download" THEN {"taken"} ELSE job.ops

(* A device reported as done has what the request gives it, whatever was   *)
(* lost or refused on the way, if the host stayed where it saw the device  *)
(* and could read the page that answered the image.                        *)
OkMeansDone ==
  [][ \A d \in Devices :
        res'[d] = "ok" /\ res[d] # "ok" /\ ~moved /\ ~unread'
          => Wanted \subseteq held'[d] ]_vars

(* Nothing is given to, or taken from, a device but the one the request is *)
(* at, unless the host was moved after it saw that device.                 *)
OnlyTheExpected ==
  [][ \A d \in Devices :
        held'[d] # held[d] /\ at # "idle" /\ ~moved => d = Dev ]_vars

(* After a firmware request every device it came to has its access point   *)
(* closed again, however the device fared, unless that CONFIG was lost.    *)
ApsClosed ==
  at = "idle" /\ job.kind = "firmware"
    => \A i \in 1..idx : job.macs[i] \in ap => job.macs[i] \in deaf

(* The host's radio is as it was, if that was asked for and neither nmcli  *)
(* nor somebody else interfered.                                           *)
RadioRestored ==
  at = "idle" /\ jobs > 0 /\ job.restore /\ ~meddled => radio = before

(* Every request ends.                                                     *)
EveryRunEnds == at # "idle" ~> at = "idle"

(* "restore the previous state when done" (host_wifi_service.py:4): the    *)
(* host is out of the access point it joined.                              *)
HostLeavesTheAp ==
  at = "idle" /\ jobs > 0 /\ job.restore /\ ~meddled /\ ~moved
    => peer = Elsewhere
=============================================================================

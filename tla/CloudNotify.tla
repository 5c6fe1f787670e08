---------------------------- MODULE CloudNotify ----------------------------
(* What the tile manager tells the cloud (notifyTileInfoCloud): the event   *)
(* listener reports tiles and answers of the tile being rung, RPC threads   *)
(* report on doRingATile, and a file may send hashed content to a staging   *)
(* environment instead.  The file may come, change and go at any time.      *)
EXTENDS Codec, Sequences, FiniteSets

CONSTANTS
    Ringer,       \* RPC threads in doRingATile
    Env,          \* staging environments the file may name
    NoEnv,        \* no environment: an empty URL
    SignedEnv,    \* those whose URLs are on codebig_hostname
    RfcSigned,    \* whether the RFC URL is on it
    Lengths       \* lengths of a tile's answer to OPEN, in hex digits

Listener == "listener"
Thread == Ringer \cup {Listener}

ASSUME RingerAssumption == IsFiniteSet(Ringer) /\ Listener \notin Ringer
ASSUME EnvAssumption == NoEnv \notin Env /\ SignedEnv \subseteq Env
ASSUME RfcAssumption == RfcSigned \in BOOLEAN
ASSUME LengthsAssumption == Lengths \subseteq Nat \ {0}

VARIABLES
    present,      \* whether /tmp/.stagingTileUrl exists
    lines,        \* the environments its first two lines name, if not empty
    discUrl,      \* gStagingDiscoveryURL
    ringUrl,      \* gStagingRingURL
    pc,           \* where each thread is in notifyTileInfoCloud
    call,         \* its locals
    refs,         \* libcurl's count of curl_global_init
    beacon,       \* whether the beacon thread is in setCustomerPreference
    ring,         \* ring_state, as far as RAND_T goes
    told,         \* a RAND_T was made and given away for this ring
    dead          \* an exception was not caught

staging == <<present, lines>>
urls == <<discUrl, ringUrl>>
vars == <<staging, urls, pc, call, refs, beacon, ring, told, dead>>

\* A line may be empty.
Line == Env \cup {NoEnv}
Lines == {<<>>} \cup {<<e>> : e \in Line} \cup {<<e, f>> : e \in Line, f \in Line}

\* "rfc": gpcRfcUrl, "batch": TILE_BATCHUPADTE_URL, "poc" and "status":
\* the ring status URLs, "discovery" and "ring": the two staging URLs.
Url == [place : {"rfc", "batch", "poc", "status", "discovery", "ring"},
        env : Env \cup {NoEnv}]
Fixed(place) == [place |-> place, env |-> NoEnv]

Uri == {"none", "tilealert", "tilebatchupdate", "tilestatus"}

\* kept: the file has been there, and the same, since the call began.
Call == [type : {"alert", "request", "randT", "cmd"}, hashed : BOOLEAN,
         url : Url, uri : Uri, signed : BOOLEAN, kept : BOOLEAN]

\* Types; only the listener is beyond curl.
TypeOK ==
    /\ present \in BOOLEAN /\ lines \in Lines
    /\ discUrl \in Env \cup {NoEnv} /\ ringUrl \in Env \cup {NoEnv}
    /\ pc \in [Thread -> {"idle", "access", "open", "init", "perform", "cleanup"}]
    /\ call \in [Thread -> Call]
    /\ refs \in Nat
    /\ beacon \in BOOLEAN
    /\ ring \in {"OPENNED", "RECEIVED_RAND_T", "NOTIFY_RAND_T"}
    /\ told \in BOOLEAN /\ dead \in BOOLEAN
    /\ \A t \in Ringer : pc[t] \notin {"access", "open"} /\ call[t].type = "request"
    /\ pc[Listener] = "open" => call[Listener].type = "alert" /\ call[Listener].hashed

Init ==
    /\ present \in BOOLEAN
    /\ lines \in IF present THEN Lines ELSE {<<>>}
    /\ discUrl = NoEnv /\ ringUrl = NoEnv
    /\ pc = [t \in Thread |-> "idle"]
    /\ call = [t \in Thread |-> [type |-> "request", hashed |-> FALSE, url |-> Fixed("poc"),
                                 uri |-> "tilestatus", signed |-> FALSE, kept |-> FALSE]]
    /\ refs = 0 /\ beacon = FALSE
    /\ ring = "OPENNED" /\ told = FALSE /\ dead = FALSE

\* urlStr.find(codebigUrl)
IsSigned(url) ==
    \/ url.place \in {"batch", "status"}
    \/ url.place = "rfc" /\ RfcSigned
    \/ url.place \in {"discovery", "ring"} /\ url.env \in SignedEnv

-----------------------------------------------------------------------------
(* Calls begin *)

Begin(t, type, hashed, where) ==
    /\ pc' = [pc EXCEPT ![t] = where]
    /\ call' = [call EXCEPT ![t] = [type |-> type, hashed |-> hashed, url |-> Fixed("poc"),
                                    uri |-> "tilestatus", signed |-> FALSE, kept |-> present]]

\* A tile is reported; hashed with service data, otherwise by its tile id.
Alert(hashed) ==
    /\ pc[Listener] = "idle"
    /\ Begin(Listener, "alert", hashed, "access")
    /\ UNCHANGED <<staging, urls, refs, beacon, ring, told, dead>>

\* doRingATile reports to a fixed URL, which nobody signs.
Request(t) ==
    /\ pc[t] = "idle"
    /\ Begin(t, "request", FALSE, "init")
    /\ UNCHANGED <<staging, urls, refs, beacon, ring, told, dead>>

\* Mutant: the ring state says notified before the notification is made.
ReceivedStateEager(n) == "NOTIFY_RAND_T"

ReceivedState(n) == IF Copied(n, 26, 14) > 0 THEN "RECEIVED_RAND_T" ELSE "OPENNED"

\* send_Rand_T_Notification, with the answer to OPEN.  With less than 14
\* digits copy() throws, and nobody catches that.
ReceiveRandT(n, hashed, randA) ==
    /\ pc[Listener] = "idle"
    /\ told' = FALSE
    /\ IF CopyThrows(n, 12) \/ CopyThrows(n, 14)
       THEN dead' = TRUE /\ ring' = "OPENNED" /\ UNCHANGED <<pc, call>>
       ELSE /\ ring' = ReceivedState(n)
            /\ IF randA THEN Begin(Listener, "randT", hashed, "access")
                        ELSE UNCHANGED <<pc, call>>
            /\ UNCHANGED dead
    /\ UNCHANGED <<staging, urls, refs, beacon>>

\* send_TOA_CMD_Response_Notification, when both answers are there.
ReceiveCommandResponse(hashed) ==
    /\ pc[Listener] = "idle"
    /\ Begin(Listener, "cmd", hashed, "access")
    /\ UNCHANGED <<staging, urls, refs, beacon, ring, told, dead>>

-----------------------------------------------------------------------------
(* The URL *)

Choose(t, where, url, uri) ==
    /\ pc' = [pc EXCEPT ![t] = where]
    /\ call' = [call EXCEPT ![t].url = url, ![t].uri = uri, ![t].signed = IsSigned(url)]

\* send_Rand_T_Notification goes on when the call returns, whatever it says.
Returns(t) ==
    /\ pc' = [pc EXCEPT ![t] = "idle"]
    /\ ring' = IF call[t].type = "randT" THEN "NOTIFY_RAND_T" ELSE ring

\* Mutant: plain alerts go to the staging environment as well.
AccessAlertAny ==
    /\ pc[Listener] = "access" /\ call[Listener].type = "alert"
    /\ IF present
       THEN pc' = [pc EXCEPT ![Listener] = "open"] /\ UNCHANGED call
       ELSE IF call[Listener].hashed
       THEN Choose(Listener, "init", Fixed("batch"), "tilebatchupdate")
       ELSE Choose(Listener, "init", Fixed("rfc"), "tilealert")
    /\ UNCHANGED <<staging, urls, refs, beacon, ring, told, dead>>

\* The one access() of an alert.
AccessAlert ==
    /\ pc[Listener] = "access" /\ call[Listener].type = "alert"
    /\ IF call[Listener].hashed /\ present
       THEN pc' = [pc EXCEPT ![Listener] = "open"] /\ UNCHANGED call
       ELSE IF call[Listener].hashed
       THEN Choose(Listener, "init", Fixed("batch"), "tilebatchupdate")
       ELSE Choose(Listener, "init", Fixed("rfc"), "tilealert")
    /\ UNCHANGED <<staging, urls, refs, beacon, ring, told, dead>>

\* Mutant: the file is read only once.
PopulateOnce ==
    IF present /\ discUrl = NoEnv
    THEN /\ discUrl' = IF Len(lines) >= 1 THEN lines[1] ELSE discUrl
         /\ ringUrl' = IF Len(lines) >= 2 THEN lines[2] ELSE ringUrl
    ELSE UNCHANGED urls

\* populateStagingDiscoveryRingURL: a line that is missing leaves its URL,
\* an empty one empties it.
Populate ==
    IF present
    THEN /\ discUrl' = IF Len(lines) >= 1 THEN lines[1] ELSE discUrl
         /\ ringUrl' = IF Len(lines) >= 2 THEN lines[2] ELSE ringUrl
    ELSE UNCHANGED urls

\* The file may be gone by now: the RFC URL stays.
OpenedUrl == IF present THEN [place |-> "discovery", env |-> discUrl'] ELSE Fixed("rfc")

\* Mutant: the URI looks for the file again.
OpenStagingAgain ==
    /\ pc[Listener] = "open"
    /\ Populate
    /\ IF discUrl' = NoEnv \/ ringUrl' = NoEnv
       THEN pc' = [pc EXCEPT ![Listener] = "idle"] /\ UNCHANGED call
       ELSE Choose(Listener, "init", OpenedUrl,
                   IF present THEN "tilealert" ELSE "tilebatchupdate")
    /\ UNCHANGED <<staging, refs, beacon, ring, told, dead>>

OpenStaging ==
    /\ pc[Listener] = "open"
    /\ Populate
    /\ IF discUrl' = NoEnv \/ ringUrl' = NoEnv
       THEN pc' = [pc EXCEPT ![Listener] = "idle"] /\ UNCHANGED call
       ELSE Choose(Listener, "init", OpenedUrl, "tilealert")
    /\ UNCHANGED <<staging, refs, beacon, ring, told, dead>>

RingResponse == {"randT", "cmd"}

\* A RAND_T is sent for a tile that gave one.
HasPayload == call[Listener].type = "randT" => ring = "RECEIVED_RAND_T"

\* There is nothing to send: the call fails.
AccessNothing ==
    /\ pc[Listener] = "access" /\ call[Listener].type \in RingResponse
    /\ ~HasPayload
    /\ Returns(Listener)
    /\ UNCHANGED <<staging, urls, call, refs, beacon, told, dead>>

\* do_webpa_notify: nothing comes back, and the call is said to have failed.
AccessWebpa ==
    /\ pc[Listener] = "access" /\ call[Listener].type \in RingResponse
    /\ HasPayload
    /\ ~(call[Listener].hashed /\ present)
    /\ told' = (told \/ call[Listener].type = "randT")
    /\ Returns(Listener)
    /\ UNCHANGED <<staging, urls, call, refs, beacon, dead>>

\* The staging URL, even if it is empty.
AccessStaging ==
    /\ pc[Listener] = "access" /\ call[Listener].type \in RingResponse
    /\ HasPayload
    /\ call[Listener].hashed /\ present
    /\ told' = (told \/ call[Listener].type = "randT")
    /\ LET url == [place |-> "ring", env |-> ringUrl]
       IN  Choose(Listener, "init", url, IF IsSigned(url) THEN "tilestatus" ELSE "none")
    /\ UNCHANGED <<staging, urls, refs, beacon, ring, dead>>

-----------------------------------------------------------------------------
(* libcurl *)

\* curl_global_init, and curl_easy_init, which may fail.
CurlInit(t) ==
    /\ pc[t] = "init"
    /\ refs' = refs + 1
    /\ pc' \in {[pc EXCEPT ![t] = "perform"], [pc EXCEPT ![t] = "cleanup"]}
    /\ UNCHANGED <<staging, urls, call, beacon, ring, told, dead>>

\* The post, whatever comes of it, and curl_easy_cleanup.
CurlPerform(t) ==
    /\ pc[t] = "perform"
    /\ pc' = [pc EXCEPT ![t] = "cleanup"]
    /\ UNCHANGED <<staging, urls, call, refs, beacon, ring, told, dead>>

Released(n) == IF n = 0 THEN 0 ELSE n - 1

\* Mutant: curl is given back for everybody.
CurlCleanupForAll(t) ==
    /\ pc[t] = "cleanup"
    /\ refs' = 0
    /\ Returns(t)
    /\ UNCHANGED <<staging, urls, call, beacon, told, dead>>

\* curl_global_cleanup
CurlCleanup(t) ==
    /\ pc[t] = "cleanup"
    /\ refs' = Released(refs)
    /\ Returns(t)
    /\ UNCHANGED <<staging, urls, call, beacon, told, dead>>

\* setCustomerPreference does not call curl_global_init: curl_easy_init
\* does, when nobody has.
BeaconStarts ==
    /\ ~beacon
    /\ beacon' = TRUE
    /\ refs' = IF refs = 0 THEN 1 ELSE refs
    /\ UNCHANGED <<staging, urls, pc, call, ring, told, dead>>

BeaconStops ==
    /\ beacon
    /\ beacon' = FALSE
    /\ UNCHANGED <<staging, urls, pc, call, refs, ring, told, dead>>

-----------------------------------------------------------------------------
(* The file *)

\* Somebody writes it, or removes it.
FileChanges ==
    /\ present' \in BOOLEAN
    /\ lines' \in IF present' THEN Lines ELSE {<<>>}
    /\ call' = [t \in Thread |-> [call[t] EXCEPT !.kept = FALSE]]
    /\ UNCHANGED <<urls, pc, refs, beacon, ring, told, dead>>

ListenerNext ==
    \/ \E hashed \in BOOLEAN : Alert(hashed) \/ ReceiveCommandResponse(hashed)
    \/ \E n \in Lengths, hashed, randA \in BOOLEAN : ReceiveRandT(n, hashed, randA)
    \/ AccessAlert \/ OpenStaging \/ AccessNothing \/ AccessWebpa \/ AccessStaging

CurlNext(t) == CurlInit(t) \/ CurlPerform(t) \/ CurlCleanup(t)

Next ==
    /\ ~dead
    /\ \/ ListenerNext \/ FileChanges \/ BeaconStarts \/ BeaconStops
       \/ \E t \in Ringer : Request(t)
       \/ \E t \in Thread : CurlNext(t)

Spec == Init /\ [][Next]_vars

-----------------------------------------------------------------------------
(* Properties *)

Posting(t) == pc[t] = "perform"

\* Hashed tile reports go to the environment the staging file names, when
\* the file stays there during the call (btrTileMgr.cpp:500, :504).
StagedContentStays ==
    Posting(Listener) /\ call[Listener].type = "alert" /\ call[Listener].hashed
      /\ call[Listener].kept
    => /\ call[Listener].url.place = "discovery"
       /\ lines # <<>> => call[Listener].url.env = lines[1]

\* A post is signed for the service it goes to (btrTileMgr.cpp:528): the
\* URL and the URI are chosen apart.
SignatureMatches ==
    \A t \in Thread : Posting(t) /\ call[t].signed =>
        /\ call[t].url.place = "batch" <=> call[t].uri = "tilebatchupdate"
        /\ call[t].url.place \in {"ring", "status"} <=> call[t].uri = "tilestatus"

\* No thread posts while curl is given back: other threads and the beacon
\* thread start and end between (btrTileMgr.cpp:743, :923).
CurlAlive == \A t \in Thread : Posting(t) => refs > 0

\* A ring that says its RAND_T was notified has had one given away
\* (btrTileMgr.cpp:1895); true of answers that hold a RAND_T.
RandTTold == ring = "NOTIFY_RAND_T" => told

\* Of the beacon thread's post, curl may be given back.  Not so: its
\* curl_easy_init does not count.
BeaconCurlAlive == beacon => refs > 0

\* Staging URLs are in the file, "else return error" (btrTileMgr.cpp:504).
\* Not so: those of an earlier file do.
StagingFromFile ==
    Posting(Listener) /\ call[Listener].type = "alert" /\ call[Listener].hashed
      /\ call[Listener].kept
    => Len(lines) = 2 /\ NoEnv \notin {lines[1], lines[2]}

\* Ring responses have a URL to go to (btrTileMgr.cpp:591).  Not so: it may
\* be empty, which only the log says.
RingHasUrl ==
    Posting(Listener) /\ call[Listener].url.place = "ring"
    => call[Listener].url.env # NoEnv

\* No answer of a tile ends the process.  Not so below 14 digits.
AnswersSurvived == ~dead
=============================================================================

------------------------- MODULE CloudNotifyProofs -------------------------
(* Theorems about CloudNotify, for all threads, environments and lengths of *)
(* a tile's answer, and about the lengths of Codec.                         *)
EXTENDS CloudNotify, FiniteSetTheorems, TLAPS

\* Whatever was encoded decodes to the length decodeBase64 asks for.
THEOREM DecodeLength == \A bytes \in Nat \ {0} : Decodes(bytes)
<1> SUFFICES ASSUME NEW bytes \in Nat \ {0} PROVE Decodes(bytes)
  OBVIOUS
<1> DEFINE rest == bytes % 3
           whole == bytes \div 3
<1>1. /\ bytes = 3 * whole + rest
      /\ rest \in 0 .. 2 /\ whole \in Nat
  OBVIOUS
<1>2. CASE rest = 0
  <2>1. Padding(bytes) = 0
    BY <1>2 DEF Padding
  <2>2. EncodedLength(bytes) = 4 * whole
    BY <1>1, <1>2, <2>1 DEF EncodedLength
  <2> QED
    BY <1>1, <1>2, <2>1, <2>2 DEF Decodes, CalcDecodeLength
<1>3. CASE rest = 1
  <2>1. Padding(bytes) = 2
    BY <1>3 DEF Padding
  <2>2. EncodedLength(bytes) = 4 * (whole + 1)
    BY <1>1, <1>3, <2>1 DEF EncodedLength
  <2> QED
    BY <1>1, <1>3, <2>1, <2>2 DEF Decodes, CalcDecodeLength
<1>4. CASE rest = 2
  <2>1. Padding(bytes) = 1
    BY <1>4 DEF Padding
  <2>2. EncodedLength(bytes) = 4 * (whole + 1)
    BY <1>1, <1>4, <2>1 DEF EncodedLength
  <2> QED
    BY <1>1, <1>4, <2>1, <2>2 DEF Decodes, CalcDecodeLength
<1> QED
  BY <1>1, <1>2, <1>3, <1>4

-----------------------------------------------------------------------------
(* Types *)

\* The steps of the system, one by one.
LEMMA NextCases ==
    ASSUME Next
    PROVE  \/ \E hashed \in BOOLEAN : Alert(hashed)
           \/ \E hashed \in BOOLEAN : ReceiveCommandResponse(hashed)
           \/ \E n \in Lengths, hashed, randA \in BOOLEAN : ReceiveRandT(n, hashed, randA)
           \/ AccessAlert \/ OpenStaging \/ AccessNothing \/ AccessWebpa \/ AccessStaging
           \/ FileChanges \/ BeaconStarts \/ BeaconStops
           \/ \E t \in Ringer : Request(t)
           \/ \E t \in Thread : CurlInit(t)
           \/ \E t \in Thread : CurlPerform(t)
           \/ \E t \in Thread : CurlCleanup(t)
  BY DEF Next, ListenerNext, CurlNext

Places == {"rfc", "batch", "poc", "status", "discovery", "ring"}

LEMMA UrlTypes ==
    ASSUME NEW place \in Places, NEW env \in Env \cup {NoEnv}
    PROVE  [place |-> place, env |-> env] \in Url /\ Fixed(place) \in Url
  BY DEF Places, Url, Fixed

\* Beginning and choosing keep the types of the locals.
LEMMA BeginTypes ==
    ASSUME TypeOK, NEW t \in Thread, NEW hashed \in BOOLEAN, NEW where,
           NEW type \in {"alert", "request", "randT", "cmd"},
           Begin(t, type, hashed, where)
    PROVE  call' \in [Thread -> Call]
<1>1. [type |-> type, hashed |-> hashed, url |-> Fixed("poc"), uri |-> "tilestatus",
       signed |-> FALSE, kept |-> present] \in Call
  BY UrlTypes DEF Call, Uri, TypeOK, Places
<1> QED
  BY <1>1 DEF Begin, TypeOK

LEMMA ChooseTypes ==
    ASSUME TypeOK, NEW t \in Thread, NEW where, NEW url \in Url, NEW uri \in Uri,
           Choose(t, where, url, uri)
    PROVE  call' \in [Thread -> Call]
<1> DEFINE signed == IsSigned(url)
<1>1. signed \in BOOLEAN
  BY DEF IsSigned
<1>2. call[t] \in Call
  BY DEF TypeOK
<1>3. call' = [call EXCEPT ![t] = [call[t] EXCEPT !.url = url, !.uri = uri,
                                                  !.signed = signed]]
  BY DEF Choose, TypeOK
<1> HIDE DEF signed
<1>4. [call[t] EXCEPT !.url = url, !.uri = uri, !.signed = signed] \in Call
  BY <1>1, <1>2 DEF Call
<1> QED
  BY <1>3, <1>4 DEF TypeOK

\* What is read from the file is an environment.
LEMMA PopulateTypes ==
    ASSUME TypeOK, Populate
    PROVE  discUrl' \in Env \cup {NoEnv} /\ ringUrl' \in Env \cup {NoEnv}
<1>1. Len(lines) >= 1 => lines[1] \in Line
  BY DEF TypeOK, Lines
<1>2. Len(lines) >= 2 => lines[2] \in Line
  BY DEF TypeOK, Lines
<1> QED
  BY <1>1, <1>2 DEF Populate, TypeOK, urls, Line

LEMMA ThreadFacts == Listener \in Thread /\ Ringer \subseteq Thread /\ Listener \notin Ringer
  BY RingerAssumption DEF Thread

\* Types are kept by every step.
LEMMA TypeStep == TypeOK /\ [Next]_vars => TypeOK'
<1> SUFFICES ASSUME TypeOK, [Next]_vars PROVE TypeOK'
  OBVIOUS
<1> USE ThreadFacts DEF staging, urls
<1>1. ASSUME NEW hashed \in BOOLEAN, Alert(hashed) PROVE TypeOK'
  <2>1. call' \in [Thread -> Call]
    BY <1>1, BeginTypes, UrlTypes DEF Alert, Uri
  <2> QED
    BY <1>1, <2>1 DEF Alert, Begin, TypeOK
<1>2. ASSUME NEW hashed \in BOOLEAN, ReceiveCommandResponse(hashed) PROVE TypeOK'
  <2>1. call' \in [Thread -> Call]
    BY <1>2, BeginTypes DEF ReceiveCommandResponse
  <2> QED
    BY <1>2, <2>1 DEF ReceiveCommandResponse, Begin, TypeOK
<1>3. ASSUME NEW n \in Lengths, NEW hashed \in BOOLEAN, NEW randA \in BOOLEAN,
             ReceiveRandT(n, hashed, randA)
      PROVE  TypeOK'
  <2>1. ReceivedState(n) \in {"OPENNED", "RECEIVED_RAND_T", "NOTIFY_RAND_T"}
    BY DEF ReceivedState
  <2>2. CASE Begin(Listener, "randT", hashed, "access")
    <3>1. call' \in [Thread -> Call]
      BY <2>2, BeginTypes
    <3> QED
      BY <1>3, <2>1, <2>2, <3>1 DEF ReceiveRandT, Begin, TypeOK
  <2>3. CASE UNCHANGED <<pc, call>>
    BY <1>3, <2>1, <2>3 DEF ReceiveRandT, TypeOK
  <2> QED
    BY <1>3, <2>2, <2>3 DEF ReceiveRandT
<1>4. CASE AccessAlert
  <2>1. CASE UNCHANGED call /\ pc' = [pc EXCEPT ![Listener] = "open"]
               /\ call[Listener].hashed
    BY <1>4, <2>1 DEF AccessAlert, TypeOK
  <2>2. CASE Choose(Listener, "init", Fixed("batch"), "tilebatchupdate")
    <3>1. call' \in [Thread -> Call]
      BY <2>2, ChooseTypes, UrlTypes DEF Uri, Places
    <3> QED
      BY <1>4, <2>2, <3>1 DEF AccessAlert, Choose, TypeOK
  <2>3. CASE Choose(Listener, "init", Fixed("rfc"), "tilealert")
    <3>1. call' \in [Thread -> Call]
      BY <2>3, ChooseTypes, UrlTypes DEF Uri, Places
    <3> QED
      BY <1>4, <2>3, <3>1 DEF AccessAlert, Choose, TypeOK
  <2> QED
    BY <1>4, <2>1, <2>2, <2>3 DEF AccessAlert
<1>5. CASE OpenStaging
  <2>1. discUrl' \in Env \cup {NoEnv} /\ ringUrl' \in Env \cup {NoEnv}
    BY <1>5, PopulateTypes DEF OpenStaging
  <2>2. OpenedUrl \in Url
    BY <2>1, UrlTypes DEF OpenedUrl, Places
  <2>3. CASE Choose(Listener, "init", OpenedUrl, "tilealert")
    <3>1. call' \in [Thread -> Call]
      BY <2>2, <2>3, ChooseTypes DEF Uri
    <3> QED
      BY <1>5, <2>1, <2>3, <3>1 DEF OpenStaging, Choose, TypeOK
  <2>4. CASE pc' = [pc EXCEPT ![Listener] = "idle"] /\ UNCHANGED call
    BY <1>5, <2>1, <2>4 DEF OpenStaging, TypeOK
  <2> QED
    BY <1>5, <2>3, <2>4 DEF OpenStaging
<1>6. CASE AccessNothing
  BY <1>6 DEF AccessNothing, Returns, TypeOK
<1>7. CASE AccessWebpa
  BY <1>7 DEF AccessWebpa, Returns, TypeOK
<1>8. CASE AccessStaging
  <2> DEFINE url == [place |-> "ring", env |-> ringUrl]
             uri == IF IsSigned(url) THEN "tilestatus" ELSE "none"
  <2>1. url \in Url /\ uri \in Uri
    BY UrlTypes DEF Uri, Places, TypeOK
  <2>2. Choose(Listener, "init", url, uri)
    BY <1>8 DEF AccessStaging
  <2> HIDE DEF url, uri
  <2>3. call' \in [Thread -> Call]
    BY <2>1, <2>2, ChooseTypes
  <2> QED
    BY <1>8, <2>2, <2>3 DEF AccessStaging, Choose, TypeOK
<1>9. CASE FileChanges
  <2>1. lines' \in Lines
    BY <1>9 DEF FileChanges, Lines
  <2>2. ASSUME NEW t \in Thread
        PROVE  /\ [call[t] EXCEPT !.kept = FALSE] \in Call
               /\ [call[t] EXCEPT !.kept = FALSE].type = call[t].type
               /\ [call[t] EXCEPT !.kept = FALSE].hashed = call[t].hashed
    <3>1. call[t] \in Call
      BY DEF TypeOK
    <3> QED
      BY <3>1 DEF Call
  <2>3. call' \in [Thread -> Call]
    BY <1>9, <2>2 DEF FileChanges
  <2>4. \A t \in Thread : call'[t].type = call[t].type /\ call'[t].hashed = call[t].hashed
    BY <1>9, <2>2 DEF FileChanges
  <2> QED
    BY <1>9, <2>1, <2>3, <2>4 DEF FileChanges, TypeOK
<1>10. CASE BeaconStarts
  BY <1>10 DEF BeaconStarts, TypeOK
<1>11. CASE BeaconStops
  BY <1>11 DEF BeaconStops, TypeOK
<1>12. ASSUME NEW t \in Ringer, Request(t) PROVE TypeOK'
  <2>1. call' \in [Thread -> Call]
    BY <1>12, BeginTypes DEF Request
  <2> QED
    BY <1>12, <2>1 DEF Request, Begin, TypeOK
<1>13. ASSUME NEW t \in Thread, CurlInit(t) PROVE TypeOK'
  BY <1>13 DEF CurlInit, TypeOK
<1>14. ASSUME NEW t \in Thread, CurlPerform(t) PROVE TypeOK'
  BY <1>14 DEF CurlPerform, TypeOK
<1>15. ASSUME NEW t \in Thread, CurlCleanup(t) PROVE TypeOK'
  <2>1. refs' \in Nat
    BY <1>15 DEF CurlCleanup, Released, TypeOK
  <2> QED
    BY <1>15, <2>1 DEF CurlCleanup, Returns, TypeOK
<1>16. CASE UNCHANGED vars
  BY <1>16 DEF vars, TypeOK
<1> QED
  BY <1>1, <1>2, <1>3, <1>4, <1>5, <1>6, <1>7, <1>8, <1>9, <1>10, <1>11, <1>12, <1>13, <1>14,
     <1>15, <1>16, NextCases

LEMMA TypeInit == Init => TypeOK
<1> SUFFICES ASSUME Init PROVE TypeOK
  OBVIOUS
<1>1. call \in [Thread -> Call]
  BY UrlTypes DEF Init, Call, Uri, Places
<1>2. lines \in Lines
  BY DEF Init, Lines
<1> QED
  BY <1>1, <1>2, ThreadFacts DEF Init, TypeOK

\* Every state of the notifications is well typed, and only the listener
\* looks at the staging file, for hashed tiles.
THEOREM TypeCorrect == Spec => []TypeOK
  BY TypeInit, TypeStep, PTL DEF Spec

-----------------------------------------------------------------------------
(* What is posted where *)

Ready(t) == pc[t] \in {"init", "perform"}

\* The URL and the URI of a call that is about to post fit each other.
SignedInv ==
    \A t \in Thread : Ready(t) /\ call[t].signed =>
        /\ call[t].url.place = "batch" <=> call[t].uri = "tilebatchupdate"
        /\ call[t].url.place \in {"ring", "status"} <=> call[t].uri = "tilestatus"

\* While the file is kept, what is about to be posted is for its environment.
StagedInv ==
    /\ \A t \in Thread : call[t].kept => present
    /\ Ready(Listener) /\ call[Listener].type = "alert" /\ call[Listener].hashed
         /\ call[Listener].kept
       => /\ call[Listener].url.place = "discovery"
          /\ lines # <<>> => call[Listener].url.env = lines[1]

PostInv == TypeOK /\ SignedInv /\ StagedInv

LEMMA PostInit == Init => PostInv
<1> SUFFICES ASSUME Init PROVE PostInv
  OBVIOUS
<1>1. \A t \in Thread : ~Ready(t) /\ ~call[t].kept
  BY DEF Init, Ready
<1> QED
  BY <1>1, TypeInit, ThreadFacts DEF PostInv, SignedInv, StagedInv

\* A call that begins is not signed, and one that chooses a URL has it.
LEMMA BeginFields ==
    ASSUME TypeOK, NEW t \in Thread, NEW type, NEW hashed, NEW where,
           Begin(t, type, hashed, where)
    PROVE  /\ call'[t].signed = FALSE /\ call'[t].kept = present
           /\ pc'[t] = where
           /\ \A u \in Thread \ {t} : call'[u] = call[u] /\ pc'[u] = pc[u]
  BY DEF Begin, TypeOK

LEMMA ChooseFields ==
    ASSUME TypeOK, NEW t \in Thread, NEW where, NEW url, NEW uri,
           Choose(t, where, url, uri)
    PROVE  /\ call'[t].type = call[t].type /\ call'[t].hashed = call[t].hashed
           /\ call'[t].url = url /\ call'[t].uri = uri
           /\ call'[t].signed = IsSigned(url) /\ call'[t].kept = call[t].kept
           /\ pc'[t] = where
           /\ \A u \in Thread \ {t} : call'[u] = call[u] /\ pc'[u] = pc[u]
<1> DEFINE signed == IsSigned(url)
<1>1. call[t] \in Call
  BY DEF TypeOK
<1>2. call'[t] = [call[t] EXCEPT !.url = url, !.uri = uri, !.signed = signed]
  BY DEF Choose, TypeOK
<1>3. /\ pc'[t] = where
      /\ \A u \in Thread \ {t} : call'[u] = call[u] /\ pc'[u] = pc[u]
  BY DEF Choose, TypeOK
<1>4. call'[t].signed = signed
  <2> HIDE DEF signed
  <2> QED
    BY <1>1, <1>2 DEF Call
<1>5. /\ call'[t].type = call[t].type /\ call'[t].hashed = call[t].hashed
      /\ call'[t].url = url /\ call'[t].uri = uri /\ call'[t].kept = call[t].kept
  <2> HIDE DEF signed
  <2> QED
    BY <1>1, <1>2 DEF Call
<1> QED
  BY <1>3, <1>4, <1>5

\* Both are kept by every step.
LEMMA PostStep == PostInv /\ [Next]_vars => PostInv'
<1> SUFFICES ASSUME PostInv, [Next]_vars PROVE PostInv'
  OBVIOUS
<1> USE ThreadFacts DEF staging, urls
<1>0. TypeOK /\ TypeOK'
  BY TypeStep DEF PostInv
<1> SUFFICES SignedInv' /\ StagedInv'
  BY <1>0 DEF PostInv
<1>1. ASSUME NEW t \in Thread, NEW type, NEW hashed, NEW where,
             Begin(t, type, hashed, where), UNCHANGED staging,
             t = Listener => where = "access"
      PROVE  SignedInv' /\ StagedInv'
  <2>0. /\ call'[t].signed = FALSE /\ call'[t].kept = present
        /\ pc'[t] = where
        /\ \A u \in Thread \ {t} : call'[u] = call[u] /\ pc'[u] = pc[u]
    BY <1>0, <1>1, BeginFields
  <2>1. SignedInv'
    BY <2>0 DEF PostInv, SignedInv, Ready
  <2>2. StagedInv'
    BY <1>1, <2>0 DEF PostInv, StagedInv, Ready
  <2> QED
    BY <2>1, <2>2
<1>2. ASSUME UNCHANGED <<staging, call>>, \A t \in Thread : Ready(t)' => Ready(t)
      PROVE  SignedInv' /\ StagedInv'
  <2>1. SignedInv'
    BY <1>2 DEF PostInv, SignedInv
  <2>2. StagedInv'
    BY <1>2 DEF PostInv, StagedInv
  <2> QED
    BY <2>1, <2>2
<1>3. ASSUME NEW url \in Url, NEW uri, Choose(Listener, "init", url, uri), UNCHANGED staging,
             IsSigned(url) => /\ url.place = "batch" <=> uri = "tilebatchupdate"
                              /\ url.place \in {"ring", "status"} <=> uri = "tilestatus",
             call[Listener].type = "alert" /\ call[Listener].hashed /\ call[Listener].kept
               => url.place = "discovery" /\ (lines # <<>> => url.env = lines[1])
      PROVE  SignedInv' /\ StagedInv'
  <2>1. SignedInv'
    BY <1>0, <1>3, ChooseFields DEF PostInv, SignedInv, Ready
  <2>2. StagedInv'
    BY <1>0, <1>3, ChooseFields DEF PostInv, StagedInv
  <2> QED
    BY <2>1, <2>2
<1>4. ASSUME NEW hashed \in BOOLEAN, Alert(hashed) PROVE SignedInv' /\ StagedInv'
  BY <1>1, <1>4 DEF Alert
<1>5. ASSUME NEW hashed \in BOOLEAN, ReceiveCommandResponse(hashed)
      PROVE  SignedInv' /\ StagedInv'
  BY <1>1, <1>5 DEF ReceiveCommandResponse
<1>6. ASSUME NEW n \in Lengths, NEW hashed \in BOOLEAN, NEW randA \in BOOLEAN,
             ReceiveRandT(n, hashed, randA)
      PROVE  SignedInv' /\ StagedInv'
  <2>1. CASE Begin(Listener, "randT", hashed, "access")
    BY <1>1, <1>6, <2>1 DEF ReceiveRandT
  <2>2. CASE UNCHANGED <<pc, call>>
    BY <1>2, <1>6, <2>2 DEF ReceiveRandT, Ready
  <2> QED
    BY <1>6, <2>1, <2>2 DEF ReceiveRandT
<1>7. CASE AccessAlert
  <2>0. UNCHANGED staging
    BY <1>7 DEF AccessAlert
  <2>1. CASE pc' = [pc EXCEPT ![Listener] = "open"] /\ UNCHANGED call
    BY <1>0, <1>2, <2>0, <2>1 DEF Ready, TypeOK
  <2>2. CASE /\ Choose(Listener, "init", Fixed("batch"), "tilebatchupdate")
             /\ ~present
    <3>1. ~call[Listener].kept
      BY <2>2 DEF PostInv, StagedInv
    <3>2. Fixed("batch") \in Url /\ Fixed("batch").place = "batch"
      BY DEF Fixed, Url
    <3> QED
      BY <1>3, <2>0, <2>2, <3>1, <3>2
  <2>3. CASE Choose(Listener, "init", Fixed("rfc"), "tilealert") /\ ~call[Listener].hashed
    <3>1. Fixed("rfc") \in Url /\ Fixed("rfc").place = "rfc"
      BY DEF Fixed, Url
    <3> QED
      BY <1>3, <2>0, <2>3, <3>1
  <2> QED
    BY <1>7, <2>1, <2>2, <2>3 DEF AccessAlert
<1>8. CASE OpenStaging
  <2>0. UNCHANGED staging
    BY <1>8 DEF OpenStaging
  <2>1. CASE pc' = [pc EXCEPT ![Listener] = "idle"] /\ UNCHANGED call
    BY <1>0, <1>2, <2>0, <2>1 DEF Ready, TypeOK
  <2>2. CASE Choose(Listener, "init", OpenedUrl, "tilealert")
    <3>1. OpenedUrl \in Url /\ OpenedUrl.place \in {"discovery", "rfc"}
      BY <1>0, <1>8, PopulateTypes DEF OpenStaging, OpenedUrl, Fixed, Url
    <3>2. ASSUME call[Listener].kept
          PROVE  OpenedUrl.place = "discovery" /\ (lines # <<>> => OpenedUrl.env = lines[1])
      <4>1. present
        BY <3>2 DEF PostInv, StagedInv
      <4>2. lines # <<>> => Len(lines) >= 1
        BY <1>0 DEF TypeOK, Lines
      <4>3. lines # <<>> => discUrl' = lines[1]
        BY <1>8, <4>1, <4>2 DEF OpenStaging, Populate
      <4> QED
        BY <4>1, <4>3 DEF OpenedUrl
    <3> QED
      BY <1>3, <2>0, <2>2, <3>1, <3>2
  <2> QED
    BY <1>8, <2>1, <2>2 DEF OpenStaging
<1>9. CASE AccessNothing \/ AccessWebpa
  BY <1>0, <1>2, <1>9 DEF AccessNothing, AccessWebpa, Returns, Ready, TypeOK
<1>10. CASE AccessStaging
  <2> DEFINE url == [place |-> "ring", env |-> ringUrl]
             uri == IF IsSigned(url) THEN "tilestatus" ELSE "none"
  <2>1. url \in Url /\ url.place = "ring"
    BY <1>0 DEF Url, TypeOK
  <2>2. Choose(Listener, "init", url, uri) /\ UNCHANGED staging
    BY <1>10 DEF AccessStaging
  <2>3. call[Listener].type # "alert"
    BY <1>10 DEF AccessStaging, RingResponse
  <2>4. IsSigned(url) => uri = "tilestatus"
    OBVIOUS
  <2> HIDE DEF url, uri
  <2> QED
    BY <1>3, <2>1, <2>2, <2>3, <2>4
<1>11. CASE FileChanges
  <2>1. \A t \in Thread : /\ call[t] \in Call
                          /\ call'[t] = [call[t] EXCEPT !.kept = FALSE]
    BY <1>0, <1>11 DEF FileChanges, TypeOK
  <2>2. \A t \in Thread : /\ call'[t].kept = FALSE /\ call'[t].signed = call[t].signed
                          /\ call'[t].url = call[t].url /\ call'[t].uri = call[t].uri
    BY <2>1 DEF Call
  <2>3. SignedInv'
    BY <1>11, <2>2 DEF FileChanges, PostInv, SignedInv, Ready
  <2> QED
    BY <2>2, <2>3 DEF StagedInv
<1>12. CASE BeaconStarts \/ BeaconStops
  BY <1>2, <1>12 DEF BeaconStarts, BeaconStops, Ready
<1>13. ASSUME NEW t \in Ringer, Request(t) PROVE SignedInv' /\ StagedInv'
  BY <1>1, <1>13 DEF Request
<1>14. ASSUME NEW t \in Thread, CurlInit(t) \/ CurlPerform(t) \/ CurlCleanup(t)
       PROVE  SignedInv' /\ StagedInv'
  BY <1>0, <1>2, <1>14 DEF CurlInit, CurlPerform, CurlCleanup, Returns, Ready, TypeOK
<1>15. CASE UNCHANGED vars
  BY <1>2, <1>15 DEF vars, Ready
<1> QED
  BY <1>0, <1>4, <1>5, <1>6, <1>7, <1>8, <1>9, <1>10, <1>11, <1>12, <1>13, <1>14, <1>15, NextCases

\* Hashed tile reports go to the environment the staging file names, as long
\* as it is kept, for every file and every set of environments.
THEOREM StagedCorrect == Spec => []StagedContentStays
<1>1. PostInv => StagedContentStays
  BY DEF PostInv, StagedInv, StagedContentStays, Posting, Ready
<1> QED
  BY <1>1, PostInit, PostStep, PTL DEF Spec

\* A post is signed for the service it goes to, whatever happens to the file
\* between the choice of the URL and that of the URI.
THEOREM SignatureCorrect == Spec => []SignatureMatches
<1>1. PostInv => SignatureMatches
  BY DEF PostInv, SignedInv, SignatureMatches, Posting, Ready
<1> QED
  BY <1>1, PostInit, PostStep, PTL DEF Spec

-----------------------------------------------------------------------------
(* libcurl *)

\* The threads that have called curl_global_init and not yet its opposite.
Holding == {t \in Thread : pc[t] \in {"perform", "cleanup"}}

\* Each of them is counted.
CurlInv == TypeOK /\ Cardinality(Holding) <= refs

LEMMA HoldingFinite == IsFiniteSet(Holding) /\ Cardinality(Holding) \in Nat
<1>1. IsFiniteSet(Ringer \cup {Listener})
  BY RingerAssumption, FS_AddElement
<1>2. Ringer \cup {Listener} = Thread /\ Holding \in SUBSET Thread
  BY DEF Thread, Holding
<1>3. IsFiniteSet(Holding)
  BY <1>1, <1>2, FS_Subset
<1> QED
  BY <1>3, FS_CardinalityType

LEMMA CurlStep == CurlInv /\ [Next]_vars => CurlInv'
<1> SUFFICES ASSUME CurlInv, [Next]_vars PROVE CurlInv'
  OBVIOUS
<1> USE ThreadFacts
<1>0. TypeOK /\ TypeOK'
  BY TypeStep DEF CurlInv
<1> SUFFICES Cardinality(Holding)' <= refs'
  BY <1>0 DEF CurlInv
<1>1. refs \in Nat /\ Cardinality(Holding) \in Nat /\ Cardinality(Holding) <= refs
  BY <1>0, HoldingFinite DEF CurlInv, TypeOK
<1>2. ASSUME Holding' = Holding, refs' >= refs, refs' \in Nat
      PROVE  Cardinality(Holding)' <= refs'
  BY <1>1, <1>2
\* A thread outside curl goes somewhere outside curl.
<1>3. ASSUME NEW t \in Thread, NEW where \in {"idle", "access", "open", "init"},
             pc' = [pc EXCEPT ![t] = where], pc[t] \in {"idle", "access", "open", "init"},
             UNCHANGED refs
      PROVE  Cardinality(Holding)' <= refs'
  <2>1. Holding' = Holding
    BY <1>0, <1>3 DEF Holding, TypeOK
  <2> QED
    BY <1>1, <1>2, <1>3, <2>1
<1>4. ASSUME UNCHANGED pc, refs' >= refs, refs' \in Nat
      PROVE  Cardinality(Holding)' <= refs'
  BY <1>2, <1>4 DEF Holding
<1>5. ASSUME NEW hashed \in BOOLEAN, Alert(hashed) PROVE Cardinality(Holding)' <= refs'
  BY <1>3, <1>5 DEF Alert, Begin
<1>6. ASSUME NEW hashed \in BOOLEAN, ReceiveCommandResponse(hashed)
      PROVE  Cardinality(Holding)' <= refs'
  BY <1>3, <1>6 DEF ReceiveCommandResponse, Begin
<1>7. ASSUME NEW n \in Lengths, NEW hashed \in BOOLEAN, NEW randA \in BOOLEAN,
             ReceiveRandT(n, hashed, randA)
      PROVE  Cardinality(Holding)' <= refs'
  <2>1. CASE Begin(Listener, "randT", hashed, "access")
    BY <1>3, <1>7, <2>1 DEF ReceiveRandT, Begin
  <2>2. CASE UNCHANGED <<pc, call>>
    BY <1>1, <1>4, <1>7, <2>2 DEF ReceiveRandT
  <2> QED
    BY <1>7, <2>1, <2>2 DEF ReceiveRandT
<1>8. CASE AccessAlert
  BY <1>3, <1>8 DEF AccessAlert, Choose
<1>9. CASE OpenStaging
  BY <1>3, <1>9 DEF OpenStaging, Choose
<1>10. CASE AccessNothing
  BY <1>3, <1>10 DEF AccessNothing, Returns
<1>11. CASE AccessWebpa
  BY <1>3, <1>11 DEF AccessWebpa, Returns
<1>12. CASE AccessStaging
  BY <1>3, <1>12 DEF AccessStaging, Choose
<1>13. CASE FileChanges \/ BeaconStops
  BY <1>1, <1>4, <1>13 DEF FileChanges, BeaconStops
<1>14. CASE BeaconStarts
  BY <1>1, <1>4, <1>14 DEF BeaconStarts
<1>15. ASSUME NEW t \in Ringer, Request(t) PROVE Cardinality(Holding)' <= refs'
  BY <1>3, <1>15 DEF Request, Begin
<1>16. ASSUME NEW t \in Thread, CurlInit(t) PROVE Cardinality(Holding)' <= refs'
  <2>1. Holding' = Holding \cup {t}
    BY <1>0, <1>16 DEF CurlInit, Holding, TypeOK
  <2>2. t \notin Holding
    BY <1>16 DEF CurlInit, Holding
  <2>3. Cardinality(Holding \cup {t}) = Cardinality(Holding) + 1
    BY <2>2, HoldingFinite, FS_AddElement
  <2>4. Cardinality(Holding)' = Cardinality(Holding) + 1
    BY <2>1, <2>3
  <2>5. refs' = refs + 1
    BY <1>16 DEF CurlInit
  <2> QED
    BY <1>1, <2>4, <2>5
<1>17. ASSUME NEW t \in Thread, CurlPerform(t) PROVE Cardinality(Holding)' <= refs'
  <2>1. Holding' = Holding
    BY <1>0, <1>17 DEF CurlPerform, Holding, TypeOK
  <2> QED
    BY <1>1, <1>2, <1>17, <2>1 DEF CurlPerform
<1>18. ASSUME NEW t \in Thread, CurlCleanup(t) PROVE Cardinality(Holding)' <= refs'
  <2>1. Holding' = Holding \ {t} /\ t \in Holding
    BY <1>0, <1>18 DEF CurlCleanup, Returns, Holding, TypeOK
  <2>2. Cardinality(Holding \ {t}) = Cardinality(Holding) - 1
    BY <2>1, HoldingFinite, FS_RemoveElement
  <2>3. Cardinality(Holding) # 0
    BY <2>1, HoldingFinite, FS_EmptySet
  <2>4. refs' = refs - 1
    BY <1>1, <1>18, <2>3 DEF CurlCleanup, Released
  <2> QED
    BY <1>1, <2>1, <2>2, <2>4
<1>19. CASE UNCHANGED vars
  BY <1>1, <1>4, <1>19 DEF vars
<1> QED
  BY <1>5, <1>6, <1>7, <1>8, <1>9, <1>10, <1>11, <1>12, <1>13, <1>14, <1>15, <1>16, <1>17, <1>18,
     <1>19, NextCases

\* No thread posts while curl is given back, however many post at a time and
\* whatever the beacon thread does.
THEOREM CurlCorrect == Spec => []CurlAlive
<1>1. Init => CurlInv
  <2>1. Init => Holding = {}
    BY DEF Init, Holding
  <2> QED
    BY <2>1, TypeInit, FS_EmptySet DEF CurlInv, Init
<1>2. CurlInv => CurlAlive
  <2> SUFFICES ASSUME CurlInv, NEW t \in Thread, Posting(t) PROVE refs > 0
    BY DEF CurlAlive
  <2>1. t \in Holding
    BY DEF Holding, Posting
  <2>2. Cardinality(Holding) # 0
    BY <2>1, HoldingFinite, FS_EmptySet
  <2> QED
    BY <2>2, HoldingFinite DEF CurlInv, TypeOK
<1> QED
  BY <1>1, <1>2, CurlStep, PTL DEF Spec

-----------------------------------------------------------------------------
(* RAND_T *)

\* Until the call ends its RAND_T is there or has been given away.
RandTInv ==
    /\ TypeOK
    /\ RandTTold
    /\ call[Listener].type = "randT" =>
         /\ pc[Listener] = "access" => ring = "RECEIVED_RAND_T"
         /\ pc[Listener] \in {"init", "perform", "cleanup"} => told

\* The rest of send_Rand_T_Notification.
LEMMA RandTStep ==
    ASSUME \A n \in Lengths : n >= 15
    PROVE  RandTInv /\ [Next]_vars => RandTInv'
<1> SUFFICES ASSUME RandTInv, [Next]_vars PROVE RandTInv'
  OBVIOUS
<1> USE ThreadFacts
<1>0. TypeOK /\ TypeOK' /\ RandTTold
  BY TypeStep DEF RandTInv
<1>1. CASE UNCHANGED <<pc, call, ring, told>>
  BY <1>0, <1>1 DEF RandTInv, RandTTold
<1>2. ASSUME NEW type \in {"alert", "cmd"}, NEW hashed, Begin(Listener, type, hashed, "access"),
             UNCHANGED <<ring, told>>
      PROVE  RandTInv'
  <2>1. call'[Listener].type = type
    BY <1>0, <1>2 DEF Begin, TypeOK
  <2> QED
    BY <1>0, <1>2, <2>1 DEF RandTInv, RandTTold
<1>3. ASSUME NEW hashed \in BOOLEAN, Alert(hashed) PROVE RandTInv'
  BY <1>2, <1>3 DEF Alert
<1>4. ASSUME NEW hashed \in BOOLEAN, ReceiveCommandResponse(hashed) PROVE RandTInv'
  BY <1>2, <1>4 DEF ReceiveCommandResponse
<1>5. ASSUME NEW n \in Lengths, NEW hashed \in BOOLEAN, NEW randA \in BOOLEAN,
             ReceiveRandT(n, hashed, randA)
      PROVE  RandTInv'
  <2>1. n >= 15 /\ n \in Nat
    BY LengthsAssumption
  <2>2. ReceivedState(n) = "RECEIVED_RAND_T"
    BY <2>1 DEF ReceivedState, Copied
  <2>3. ring' = "RECEIVED_RAND_T" /\ pc[Listener] = "idle"
    BY <1>5, <2>1, <2>2 DEF ReceiveRandT, CopyThrows
  <2>4. pc'[Listener] \in {"idle", "access"}
    BY <1>0, <1>5, <2>1 DEF ReceiveRandT, CopyThrows, Begin, TypeOK
  <2> QED
    BY <1>0, <2>3, <2>4 DEF RandTInv, RandTTold
\* A choice keeps the type of the call.
<1>6. ASSUME NEW url, NEW uri, Choose(Listener, "init", url, uri), UNCHANGED ring,
             told' = (told \/ call[Listener].type = "randT"),
             call[Listener].type = "randT" => pc[Listener] = "access"
      PROVE  RandTInv'
  <2>1. call'[Listener].type = call[Listener].type /\ pc'[Listener] = "init"
    BY <1>0, <1>6, ChooseFields
  <2> QED
    BY <1>0, <1>6, <2>1 DEF RandTInv, RandTTold
<1>7. ASSUME NEW url, NEW uri, Choose(Listener, "init", url, uri), UNCHANGED <<ring, told>>,
             call[Listener].type = "alert"
      PROVE  RandTInv'
  <2>1. call'[Listener].type = "alert"
    BY <1>0, <1>7, ChooseFields
  <2> QED
    BY <1>0, <1>7, <2>1 DEF RandTInv, RandTTold
<1>8. CASE AccessAlert
  <2>1. CASE UNCHANGED call
    BY <1>0, <1>8, <2>1 DEF AccessAlert, RandTInv, RandTTold, TypeOK
  <2>2. CASE ~UNCHANGED call
    BY <1>7, <1>8, <2>2 DEF AccessAlert
  <2> QED
    BY <2>1, <2>2
<1>9. CASE OpenStaging
  <2>0. call[Listener].type = "alert"
    BY <1>0, <1>9 DEF OpenStaging, TypeOK
  <2>1. CASE Choose(Listener, "init", OpenedUrl, "tilealert")
    BY <1>7, <1>9, <2>0, <2>1 DEF OpenStaging
  <2>2. CASE UNCHANGED call
    BY <1>0, <1>9, <2>0, <2>2 DEF OpenStaging, RandTInv, RandTTold, TypeOK
  <2> QED
    BY <1>9, <2>1, <2>2 DEF OpenStaging
<1>10. CASE AccessNothing
  BY <1>0, <1>10 DEF AccessNothing, HasPayload, Returns, RandTInv, RandTTold, TypeOK
<1>11. CASE AccessWebpa
  BY <1>0, <1>11 DEF AccessWebpa, Returns, RandTInv, RandTTold, TypeOK
<1>12. CASE AccessStaging
  BY <1>6, <1>12 DEF AccessStaging
<1>13. CASE FileChanges
  <2>1. call[Listener] \in Call /\ call'[Listener] = [call[Listener] EXCEPT !.kept = FALSE]
    BY <1>0, <1>13 DEF FileChanges, TypeOK
  <2>2. call'[Listener].type = call[Listener].type
    BY <2>1 DEF Call
  <2> QED
    BY <1>0, <1>13, <2>2 DEF FileChanges, RandTInv, RandTTold
<1>14. CASE BeaconStarts \/ BeaconStops
  BY <1>1, <1>14 DEF BeaconStarts, BeaconStops
<1>15. ASSUME NEW t \in Ringer, Request(t) PROVE RandTInv'
  BY <1>0, <1>15 DEF Request, Begin, RandTInv, RandTTold, TypeOK
<1>16. ASSUME NEW t \in Thread, CurlInit(t) PROVE RandTInv'
  BY <1>0, <1>16 DEF CurlInit, RandTInv, RandTTold, TypeOK
<1>17. ASSUME NEW t \in Thread, CurlPerform(t) PROVE RandTInv'
  BY <1>0, <1>17 DEF CurlPerform, RandTInv, RandTTold, TypeOK
<1>18. ASSUME NEW t \in Thread, CurlCleanup(t) PROVE RandTInv'
  <2>1. CASE t = Listener
    BY <1>0, <1>18, <2>1 DEF CurlCleanup, Returns, RandTInv, RandTTold, TypeOK
  <2>2. CASE t \in Ringer
    BY <1>0, <1>18, <2>2 DEF CurlCleanup, Returns, RandTInv, RandTTold, TypeOK
  <2> QED
    BY <2>1, <2>2 DEF Thread
<1>19. CASE UNCHANGED vars
  BY <1>1, <1>19 DEF vars
<1> QED
  BY <1>3, <1>4, <1>5, <1>8, <1>9, <1>10, <1>11, <1>12, <1>13, <1>14, <1>15, <1>16, <1>17, <1>18,
     <1>19, NextCases

\* If every answer of a tile has at least 15 digits, a ring that says its
\* RAND_T was notified has had one given away.
THEOREM RandTCorrect ==
    ASSUME \A n \in Lengths : n >= 15
    PROVE  Spec => []RandTTold
<1>1. Init => RandTInv
  BY TypeInit, ThreadFacts DEF Init, RandTInv, RandTTold
<1>2. RandTInv /\ [Next]_vars => RandTInv'
  BY RandTStep
<1>3. RandTInv => RandTTold
  BY DEF RandTInv
<1> QED
  BY <1>1, <1>2, <1>3, PTL DEF Spec
=============================================================================

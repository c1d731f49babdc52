---------------------------- MODULE ServicesProofs ----------------------------
(***************************************************************************)
(* What the services promise, for every number of callers, calls, batches, *)
(* requests and starts, and every queue, timeout and breaker setting.      *)
(*                                                                         *)
(* Each service has an invariant of its own, which its steps preserve; a   *)
(* step of another one leaves it alone.                                    *)
(***************************************************************************)
EXTENDS Services, ReplayProofs

\* A step is a step of one service and leaves the others where they are.
LEMMA StepOfOne ==
  ASSUME [ServicesNext]_allVars
  PROVE  /\ [ModelNext]_modelVars
         /\ [ServingNext]_servingVars
         /\ [FeedNext]_feedVars
         /\ [BridgeNext]_bridgeVars
         /\ [IngestNext]_ingestVars
         /\ [ReplayNext]_replayVars
         /\ focus' = focus
BY DEF ServicesNext, OfModel, OfServing, OfFeed, OfBridge, OfIngestion, OfReplay, Only, allVars

-----------------------------------------------------------------------------
(* The metrics bridge. *)

\* A thread that runs was created by the latest start(), or stop() has forgotten it.
BridgeInv ==
  /\ BridgeTypeOK
  /\ threads = {} \/ threads = Topic \X {bridgeStarts}
  /\ alive \ forgotten \subseteq threads
  /\ threads \cap forgotten = {}
  /\ \A t \in alive \cup forgotten : t[2] <= bridgeStarts

LEMMA BridgeInitially == BridgeInit => BridgeInv
<1> SUFFICES ASSUME BridgeInit
             PROVE  BridgeInv
  OBVIOUS
<1>1. bridgeStop \in BOOLEAN /\ stopping \in BOOLEAN
  BY DEF BridgeInit
<1>3. BridgeTypeOK
  BY <1>1, BridgeAssumption DEF BridgeInit, BridgeTypeOK
<1>2. alive \cup forgotten = {} /\ threads = {}
  BY DEF BridgeInit
<1> QED
  BY <1>3, <1>2 DEF BridgeInv

LEMMA BridgeStep ==
  ASSUME BridgeInv, [BridgeNext]_bridgeVars
  PROVE  BridgeInv'
<1> USE BridgeAssumption DEF BridgeTypeOK
<1>1. CASE StartBridge
  <2>1. bridgeStarts' = bridgeStarts + 1 /\ bridgeStarts' \in 1 .. MaxBridgeStarts
        /\ bridgeStarts \in Nat
    BY <1>1 DEF BridgeInv, StartBridge
  <2>2. threads' = Topic \X {bridgeStarts'} /\ forgotten' = forgotten
        /\ joining' = joining /\ stopping' = stopping
    BY <1>1 DEF StartBridge, stopCall
  <2>3. threads' \subseteq BridgeThread
    BY <2>1, <2>2 DEF BridgeThread
  <2>4. PICK started \in Started(bridgeStarts') : alive' = alive \cup started
    BY <1>1 DEF StartBridge
  <2>5. started \subseteq threads'
    BY <2>2, <2>4 DEF Started, Topic
  <2>6. alive \subseteq forgotten
    BY <1>1 DEF BridgeInv, StartBridge, BridgeRunning
  <2>7. \A t \in threads' : t[2] = bridgeStarts'
    BY <2>2
  <2>8. BridgeTypeOK'
    <3>1. alive' \subseteq BridgeThread
      BY <2>3, <2>4, <2>5 DEF BridgeInv
    <3>2. bridgeStop' \in BOOLEAN
      BY <1>1 DEF StartBridge
    <3>3. bridgeStarts' \in 0 .. MaxBridgeStarts
      BY <2>1
    <3> QED
      BY <2>2, <2>3, <3>1, <3>2, <3>3 DEF BridgeInv
  <2>9. \A t \in alive \cup forgotten : t[2] \in Nat
    BY DEF BridgeInv, BridgeThread
  <2>10. \A t \in alive' \cup forgotten' : t[2] <= bridgeStarts'
    BY <2>1, <2>2, <2>4, <2>5, <2>7, <2>9 DEF BridgeInv
  <2>11. threads' \cap forgotten' = {}
    BY <2>1, <2>2, <2>7, <2>9 DEF BridgeInv
  <2> QED
    BY <2>2, <2>4, <2>5, <2>6, <2>8, <2>10, <2>11 DEF BridgeInv
<1>2. CASE StopBridge
  BY <1>2 DEF BridgeInv, StopBridge
<1>3. CASE Join
  BY <1>3 DEF BridgeInv, Join
<1>4. CASE StopReturns
  BY <1>4 DEF BridgeInv, StopReturns
<1>5. CASE ThreadDies \/ \E t \in BridgeThread : ThreadEnds(t)
  BY <1>5 DEF BridgeInv, ThreadDies, ThreadEnds, stopCall
<1>6. CASE UNCHANGED bridgeVars
  BY <1>6 DEF BridgeInv, bridgeVars, stopCall
<1> QED
  BY <1>1, <1>2, <1>3, <1>4, <1>5, <1>6 DEF BridgeNext

LEMMA BridgeMeans == BridgeInv => OneReaderPerTopic
<1> SUFFICES ASSUME BridgeInv
             PROVE  OneReaderPerTopic
  OBVIOUS
<1>1. ASSUME NEW s \in alive \ forgotten, NEW t \in alive \ forgotten, s[1] = t[1]
      PROVE  s = t
  BY <1>1 DEF BridgeInv
<1>2. ASSUME BridgeHealthy, NEW x \in Topic
      PROVE  \E t \in alive \ forgotten : t[1] = x
  <2>1. <<x, bridgeStarts>> \in threads
    BY <1>2 DEF BridgeInv, BridgeHealthy
  <2>2. <<x, bridgeStarts>> \in alive \ forgotten
    BY <1>2, <2>1 DEF BridgeInv, BridgeHealthy
  <2> QED
    BY <2>2
<1> QED
  BY <1>1, <1>2 DEF OneReaderPerTopic

-----------------------------------------------------------------------------
(* Sequences, changed as the services change them. *)

LEMMA SeqFacts ==
  ASSUME NEW S, NEW s \in Seq(S)
  PROVE  /\ Len(s) \in Nat
         /\ DOMAIN s = 1 .. Len(s)
         /\ \A i \in 1 .. Len(s) : s[i] \in S
OBVIOUS

LEMMA SeqEmpty ==
  ASSUME NEW S
  PROVE  <<>> \in Seq(S) /\ Len(<<>>) = 0
OBVIOUS

LEMMA SeqAppended ==
  ASSUME NEW S, NEW s \in Seq(S), NEW v \in S
  PROVE  /\ Append(s, v) \in Seq(S)
         /\ Len(Append(s, v)) = Len(s) + 1
         /\ \A i \in 1 .. Len(s) : Append(s, v)[i] = s[i]
         /\ Append(s, v)[Len(s) + 1] = v
<1>1. Append(s, v) \in Seq(S) /\ Len(Append(s, v)) = Len(s) + 1
  OBVIOUS
<1>2. \A i \in 1 .. Len(s) : Append(s, v)[i] = s[i]
  OBVIOUS
<1>3. Append(s, v)[Len(s) + 1] = v
  OBVIOUS
<1> QED
  BY <1>1, <1>2, <1>3

LEMMA LastIndex ==
  ASSUME NEW n \in Nat, n > 0
  PROVE  n \in 1 .. n
OBVIOUS

LEMMA SeqOfFunction ==
  ASSUME NEW S, NEW n \in Nat, NEW f \in [1 .. n -> S]
  PROVE  f \in Seq(S) /\ Len(f) = n
OBVIOUS

LEMMA SeqReplaced ==
  ASSUME NEW S, NEW s \in Seq(S), NEW i \in 1 .. Len(s), NEW v \in S
  PROVE  /\ [s EXCEPT ![i] = v] \in Seq(S)
         /\ Len([s EXCEPT ![i] = v]) = Len(s)
         /\ [s EXCEPT ![i] = v][i] = v
         /\ \A j \in 1 .. Len(s) : j # i => [s EXCEPT ![i] = v][j] = s[j]
<1>1. [s EXCEPT ![i] = v] \in [1 .. Len(s) -> S] /\ Len(s) \in Nat
  OBVIOUS
<1>2. [s EXCEPT ![i] = v] \in Seq(S) /\ Len([s EXCEPT ![i] = v]) = Len(s)
  BY <1>1, SeqOfFunction
<1>3. [s EXCEPT ![i] = v][i] = v
  OBVIOUS
<1>4. \A j \in 1 .. Len(s) : j # i => [s EXCEPT ![i] = v][j] = s[j]
  OBVIOUS
<1> QED
  BY <1>2, <1>3, <1>4

-----------------------------------------------------------------------------
(* The ingestion API. *)

\* What AnswersHonest says of request n if its client is told code.
Honest(n, code) ==
  /\ code \in {"400", "404", "500"} => event[n] = "none" /\ n \notin stored
  /\ code = "200" =>
       \/ n \in stored
       \/ event[n] \in {"memory", "failed"} /\ server # "down" /\ n > ended
       \/ event[n] = "reported" /\ letter[n] # "none"
       \/ event[n] = "lost" /\ n <= ended

\* The answer that is to be written is as honest as those that were, and a process
\* that does not serve has nothing in memory.
IngestInv ==
  /\ IngestTypeOK
  /\ \A n \in 1 .. Len(posts) : Honest(n, posts[n])
  /\ answer # "" => Len(posts) > 0 /\ server = "up" /\ Honest(Len(posts), answer)
  /\ server \in {"down", "connecting"} =>
       \A n \in 1 .. Len(posts) : event[n] \notin {"memory", "failed"}
  /\ server = "connecting" => attempt <= Retries

LEMMA IngestFacts ==
  ASSUME IngestTypeOK
  PROVE  /\ Len(posts) \in Nat /\ Len(posts) <= MaxPosts
         /\ DOMAIN posts = 1 .. Len(posts)
         /\ DOMAIN event = 1 .. Len(posts)
         /\ DOMAIN letter = 1 .. Len(posts)
         /\ \A n \in 1 .. Len(posts) :
              posts[n] \in Outcome /\ event[n] \in Place /\ letter[n] \in LetterPlace
         /\ Len(event) = Len(posts) /\ Len(letter) = Len(posts)
<1>1. posts \in Seq(Outcome) /\ event \in Seq(Place) /\ letter \in Seq(LetterPlace)
      /\ Len(event) = Len(posts) /\ Len(letter) = Len(posts) /\ Len(posts) <= MaxPosts
  BY DEF IngestTypeOK
<1> QED
  BY <1>1, SeqFacts

LEMMA IngestInitially == IngestInit => IngestInv
<1> SUFFICES ASSUME IngestInit
             PROVE  IngestInv
  OBVIOUS
<1>0. /\ posts = <<>> /\ event = <<>> /\ letter = <<>> /\ stored = {} /\ ended = 0
      /\ attempt = 0 /\ processes = 0
  BY DEF IngestInit
<1>1. Len(posts) = 0 /\ Len(event) = 0 /\ Len(letter) = 0
  BY <1>0
<1>2. posts \in Seq(Outcome) /\ event \in Seq(Place) /\ letter \in Seq(LetterPlace)
  BY <1>0, SeqEmpty
<1>3. server \in {"down", "connecting", "up", "flushing"} /\ answer = ""
      /\ server # "connecting"
  BY DEF IngestInit
<1>4. attempt \in 0 .. Retries + 1 /\ processes \in 0 .. MaxProcesses
  BY <1>0, IngestionAssumption
<1>5. stored \subseteq 1 .. Len(posts) /\ ended \in 0 .. Len(posts) /\ Len(posts) <= MaxPosts
  BY <1>0, <1>1, IngestionAssumption
<1>6. IngestTypeOK
  BY <1>1, <1>2, <1>3, <1>4, <1>5 DEF IngestTypeOK
<1>7. \A n \in 1 .. Len(posts) : FALSE
  BY <1>1
<1> QED
  BY <1>3, <1>6, <1>7 DEF IngestInv

\* One more request, which has the answer code; of the earlier ones some failures
\* are reported.
LEMMA PostStep ==
  ASSUME IngestInv, NEW code \in Outcome, Post(code),
         event' \in Seq(Place), Len(event') = Len(posts) + 1,
         letter' \in Seq(LetterPlace), Len(letter') = Len(posts) + 1,
         UNCHANGED stored,
         \A n \in 1 .. Len(posts) :
           \/ event'[n] = event[n] /\ letter'[n] = letter[n]
           \/ event[n] = "failed" /\ event'[n] = "reported" /\ letter'[n] # "none",
         code \in {"400", "404", "500"} => event'[Len(posts) + 1] = "none",
         code = "200" => event'[Len(posts) + 1] = "memory"
  PROVE  IngestInv'
<1>t. IngestTypeOK
  BY DEF IngestInv
<1>n. PICK N \in Nat : N = Len(posts)
  BY <1>t, IngestFacts
<1>1. posts \in Seq(Outcome)
  BY <1>t DEF IngestTypeOK
<1>2. posts' = Append(posts, "waiting") /\ N < MaxPosts /\ answer' = code /\ server = "up"
      /\ server' = server /\ attempt' = attempt /\ processes' = processes /\ ended' = ended
  BY <1>n DEF Post, process
<1>3. /\ posts' \in Seq(Outcome) /\ Len(posts') = N + 1
      /\ \A n \in 1 .. N : posts'[n] = posts[n]
      /\ posts'[N + 1] = "waiting"
  <2>1. "waiting" \in Outcome
    BY DEF Outcome
  <2> QED
    BY <1>1, <1>2, <1>n, <2>1, SeqAppended
<1>6. stored \subseteq 1 .. N /\ ended \in 0 .. N
  BY <1>t, <1>n DEF IngestTypeOK
<1>7. Len(posts') <= MaxPosts /\ stored' \subseteq 1 .. Len(posts') /\ ended' \in 0 .. Len(posts')
  BY <1>2, <1>3, <1>6, IngestionAssumption
<1>8. IngestTypeOK'
  BY <1>t, <1>n, <1>2, <1>3, <1>7 DEF IngestTypeOK
<1>9. ASSUME NEW n \in 1 .. N
      PROVE  Honest(n, posts[n])'
  <2>1. Honest(n, posts[n])
    BY <1>n DEF IngestInv
  <2>3. n \in 1 .. Len(posts)
    BY <1>n
  <2>2. \/ event'[n] = event[n] /\ letter'[n] = letter[n]
        \/ event[n] = "failed" /\ event'[n] = "reported" /\ letter'[n] # "none"
    BY <2>3
  <2> QED
    BY <1>2, <1>3, <2>1, <2>2 DEF Honest
<1>10. Honest(N + 1, posts[N + 1])'
  BY <1>3 DEF Honest
<1>11. Honest(N + 1, answer)'
  <2>1. N + 1 \notin stored'
    BY <1>6
  <2>2. N + 1 > ended'
    BY <1>2, <1>6
  <2> QED
    BY <1>2, <1>n, <2>1, <2>2 DEF Honest
<1>12. ASSUME NEW n \in 1 .. N + 1
       PROVE  Honest(n, posts[n])'
  <2>1. n \in 1 .. N \/ n = N + 1
    OBVIOUS
  <2> QED
    BY <1>9, <1>10, <2>1
<1>13. Len(posts') > 0
  BY <1>3
<1> QED
  BY <1>2, <1>3, <1>8, <1>11, <1>12, <1>13 DEF IngestInv

\* Any other step: what is said stays true, and what is newly said was to be said
\* or is nothing.
LEMMA OtherStep ==
  ASSUME IngestInv, IngestTypeOK',
         Len(posts') = Len(posts),
         \A n \in 1 .. Len(posts) :
           \/ posts'[n] = posts[n]
           \/ posts'[n] = "closed"
           \/ n = Len(posts) /\ answer # "" /\ posts'[n] = answer,
         answer' = "" \/ (answer' = answer /\ server' = server),
         \A n \in 1 .. Len(posts), code \in Outcome : Honest(n, code) => Honest(n, code)',
         server' \in {"down", "connecting"} =>
           \A n \in 1 .. Len(posts) : event'[n] \notin {"memory", "failed"},
         server' = "connecting" => attempt' <= Retries
  PROVE  IngestInv'
<1>n. PICK N \in Nat : N = Len(posts)
  BY IngestFacts DEF IngestInv
<1>o. \A n \in 1 .. N : posts[n] \in Outcome
  BY <1>n, IngestFacts DEF IngestInv
<1>1. ASSUME NEW n \in 1 .. N
      PROVE  Honest(n, posts[n])'
  <2>1. Honest(n, posts[n])'  \/ posts'[n] = "closed" \/ (n = N /\ answer # "" /\ posts'[n] = answer)
    <3>1. CASE posts'[n] = posts[n]
      <4>1. Honest(n, posts[n]) /\ posts[n] \in Outcome
        BY <1>n, <1>o DEF IngestInv
      <4>2. PICK c \in Outcome : c = posts[n]
        BY <4>1
      <4>3. Honest(n, c)'
        BY <4>1, <4>2, <1>n
      <4> QED
        BY <3>1, <4>2, <4>3 DEF Honest
    <3> QED
      BY <3>1, <1>n
  <2>2. CASE posts'[n] = "closed"
    BY <2>2 DEF Honest
  <2>3. CASE n = N /\ answer # "" /\ posts'[n] = answer
    <3>1. Honest(n, answer) /\ answer \in Outcome
      BY <2>3, <1>n DEF IngestInv, IngestTypeOK
    <3>2. PICK c \in Outcome : c = answer
      BY <3>1
    <3>3. Honest(n, c)'
      BY <3>1, <3>2, <1>n
    <3> QED
      BY <2>3, <3>2, <3>3 DEF Honest
  <2> QED
    BY <2>1, <2>2, <2>3
<1>2. ASSUME answer' # ""
      PROVE  Len(posts') > 0 /\ server' = "up" /\ Honest(N, answer)'
  <2>1. answer' = answer /\ server' = server /\ N > 0 /\ server = "up" /\ Honest(N, answer)
        /\ answer \in Outcome
    BY <1>2, <1>n DEF IngestInv, IngestTypeOK
  <2>2. PICK c \in Outcome : c = answer
    BY <2>1
  <2>5. N > 0
    BY <2>1
  <2>3. N \in 1 .. N
    BY <2>5, LastIndex, Zenon
  <2>4. Honest(N, c)'
    BY <2>1, <2>2, <2>3, <1>n
  <2> QED
    BY <2>1, <2>2, <2>4, <1>n DEF Honest
<1> QED
  BY <1>n, <1>1, <1>2 DEF IngestInv

\* What poll and flush do to the failures that wait.
LEMMA ReportsStep ==
  ASSUME NEW e \in Seq(Place), NEW l \in Seq(LetterPlace), Len(l) = Len(e),
         ServeReports(e, l)
  PROVE  /\ event' \in Seq(Place) /\ Len(event') = Len(e)
         /\ letter' \in Seq(LetterPlace) /\ Len(letter') = Len(e)
         /\ \A n \in 1 .. Len(e) :
              \/ e[n] # "failed" /\ event'[n] = e[n] /\ letter'[n] = l[n]
              \/ e[n] = "failed" /\ event'[n] = "reported" /\ letter'[n] \in {"memory", "failed"}
<1>1. /\ Len(e) \in Nat /\ DOMAIN e = 1 .. Len(e) /\ DOMAIN l = 1 .. Len(e)
      /\ \A n \in 1 .. Len(e) : e[n] \in Place /\ l[n] \in LetterPlace
  BY SeqFacts
<1>2. event' = [n \in 1 .. Len(e) |-> IF e[n] = "failed" THEN "reported" ELSE e[n]]
  BY <1>1 DEF ServeReports
<1>3. event' \in [1 .. Len(e) -> Place]
  <2>1. \A n \in 1 .. Len(e) : (IF e[n] = "failed" THEN "reported" ELSE e[n]) \in Place
    BY <1>1 DEF Place
  <2> QED
    BY <1>2, <2>1
<1>4. PICK keptAside \in SUBSET Failed(e) :
        letter' = [n \in DOMAIN l |->
          CASE n \in keptAside -> "memory"
            [] n \in Failed(e) \ keptAside -> "failed"
            [] OTHER -> l[n]]
  BY DEF ServeReports
<1>5. ASSUME NEW n \in 1 .. Len(e)
      PROVE  /\ e[n] # "failed" => letter'[n] = l[n]
             /\ e[n] = "failed" => letter'[n] \in {"memory", "failed"}
  BY <1>1, <1>4 DEF Failed
<1>6. letter' \in [1 .. Len(e) -> LetterPlace]
  <2>1. \A n \in 1 .. Len(e) : letter'[n] \in LetterPlace
    BY <1>1, <1>5 DEF LetterPlace
  <2>2. letter' = [n \in 1 .. Len(e) |-> letter'[n]]
    BY <1>1, <1>4
  <2> QED
    BY <2>1, <2>2
<1>7. event' \in Seq(Place) /\ Len(event') = Len(e)
  BY <1>1, <1>3, SeqOfFunction
<1>8. letter' \in Seq(LetterPlace) /\ Len(letter') = Len(e)
  BY <1>1, <1>6, SeqOfFunction
<1>9. \A n \in 1 .. Len(e) : event'[n] = IF e[n] = "failed" THEN "reported" ELSE e[n]
  BY <1>2
<1> QED
  BY <1>5, <1>7, <1>8, <1>9

\* Requests that are refused, or fail.
LEMMA RefusedStep ==
  ASSUME IngestInv, PostInvalid \/ PostUnmaskable \/ PostFails
  PROVE  IngestInv'
<1>1. PICK code \in {"400", "404", "500", "closed"}, l \in {"none", "memory", "failed"} :
        /\ Post(code)
        /\ event' = Append(event, "none")
        /\ letter' = Append(letter, l)
        /\ UNCHANGED stored
  BY DEF PostInvalid, PostUnmaskable, PostFails, CheckFails
<1>2. code \in Outcome /\ code # "200" /\ l \in LetterPlace /\ "none" \in Place
  BY DEF Outcome, LetterPlace, Place
<1>3. event \in Seq(Place) /\ letter \in Seq(LetterPlace)
      /\ Len(event) = Len(posts) /\ Len(letter) = Len(posts)
  BY DEF IngestInv, IngestTypeOK
<1>4. /\ event' \in Seq(Place) /\ Len(event') = Len(posts) + 1
      /\ \A n \in 1 .. Len(posts) : event'[n] = event[n]
      /\ event'[Len(posts) + 1] = "none"
  BY <1>1, <1>2, <1>3, SeqAppended
<1>5. /\ letter' \in Seq(LetterPlace) /\ Len(letter') = Len(posts) + 1
      /\ \A n \in 1 .. Len(posts) : letter'[n] = letter[n]
  BY <1>1, <1>2, <1>3, SeqAppended
<1> QED
  BY <1>1, <1>2, <1>4, <1>5, PostStep

LEMMA PublishedStep ==
  ASSUME IngestInv, PostPublished
  PROVE  IngestInv'
<1> DEFINE e == Append(event, "memory")
           l == Append(letter, "none")
<1>1. "memory" \in Place /\ "none" \in LetterPlace /\ "200" \in Outcome
  BY DEF Outcome, LetterPlace, Place
<1>2. event \in Seq(Place) /\ letter \in Seq(LetterPlace)
      /\ Len(event) = Len(posts) /\ Len(letter) = Len(posts)
  BY DEF IngestInv, IngestTypeOK
<1>3. /\ e \in Seq(Place) /\ Len(e) = Len(posts) + 1
      /\ \A n \in 1 .. Len(posts) : e[n] = event[n]
      /\ e[Len(posts) + 1] = "memory"
  BY <1>1, <1>2, SeqAppended
<1>4. /\ l \in Seq(LetterPlace) /\ Len(l) = Len(posts) + 1
      /\ \A n \in 1 .. Len(posts) : l[n] = letter[n]
  BY <1>1, <1>2, SeqAppended
<1>5. Post("200") /\ ServeReports(e, l) /\ UNCHANGED stored
  BY DEF PostPublished
<1> HIDE DEF e, l
<1>6. /\ event' \in Seq(Place) /\ Len(event') = Len(e)
      /\ letter' \in Seq(LetterPlace) /\ Len(letter') = Len(e)
      /\ \A n \in 1 .. Len(e) :
           \/ e[n] # "failed" /\ event'[n] = e[n] /\ letter'[n] = l[n]
           \/ e[n] = "failed" /\ event'[n] = "reported" /\ letter'[n] \in {"memory", "failed"}
  BY <1>3, <1>4, <1>5, ReportsStep
<1>7. Len(posts) \in Nat
  BY IngestFacts DEF IngestInv
<1>8. \A n \in 1 .. Len(posts) :
        \/ event'[n] = event[n] /\ letter'[n] = letter[n]
        \/ event[n] = "failed" /\ event'[n] = "reported" /\ letter'[n] # "none"
  <2> SUFFICES ASSUME NEW n \in 1 .. Len(posts)
               PROVE  \/ event'[n] = event[n] /\ letter'[n] = letter[n]
                      \/ event[n] = "failed" /\ event'[n] = "reported" /\ letter'[n] # "none"
    OBVIOUS
  <2>1. n \in 1 .. Len(e)
    BY <1>3, <1>7
  <2> QED
    BY <2>1, <1>3, <1>4, <1>6
<1>9. event'[Len(posts) + 1] = "memory"
  <2>1. Len(posts) + 1 \in 1 .. Len(e)
    BY <1>3, <1>7
  <2> QED
    BY <2>1, <1>3, <1>6
<1> QED
  BY <1>1, <1>3, <1>5, <1>6, <1>8, <1>9, PostStep

LEMMA ConnectionClosed ==
  ASSUME IngestInv, CloseConnection
  PROVE  /\ posts' \in Seq(Outcome) /\ Len(posts') = Len(posts)
         /\ \A n \in 1 .. Len(posts) : posts'[n] = posts[n] \/ posts'[n] = "closed"
         /\ answer' = ""
<1>1. posts \in Seq(Outcome) /\ Len(posts) \in Nat
  BY IngestFacts DEF IngestInv, IngestTypeOK
<1>2. CASE answer = ""
  <2>1. posts' = posts /\ answer' = ""
    BY <1>2 DEF CloseConnection
  <2> QED
    BY <1>1, <2>1
<1>3. CASE answer # ""
  <2>1. Len(posts) \in 1 .. Len(posts)
    <3>1. Len(posts) > 0
      BY <1>3 DEF IngestInv
    <3> QED
      BY <1>1, <3>1, LastIndex, Zenon
  <2>2. PICK closed \in Outcome : closed = "closed"
    BY DEF Outcome
  <2>3. posts' = [posts EXCEPT ![Len(posts)] = closed]
    BY <1>3, <2>2 DEF CloseConnection
  <2>6. answer' = ""
    BY DEF CloseConnection
  <2>4. /\ posts' \in Seq(Outcome) /\ Len(posts') = Len(posts)
        /\ posts'[Len(posts)] = closed
        /\ \A j \in 1 .. Len(posts) : j # Len(posts) => posts'[j] = posts[j]
    BY <1>1, <2>1, <2>3, SeqReplaced
  <2>5. ASSUME NEW n \in 1 .. Len(posts)
        PROVE  posts'[n] = posts[n] \/ posts'[n] = "closed"
    <3>1. CASE n = Len(posts)
      BY <2>2, <2>4, <3>1, Zenon
    <3>2. CASE n # Len(posts)
      BY <2>4, <3>2, Zenon
    <3> QED
      BY <3>1, <3>2
  <2> QED
    BY <2>4, <2>5, <2>6
<1> QED
  BY <1>2, <1>3

\* The server starts, and reaches the registry or gives up.
LEMMA StartStep ==
  ASSUME IngestInv, StartServer \/ RegistryAnswers \/ RegistryFails
  PROVE  IngestInv'
<1>1. UNCHANGED <<posts, answer, event, letter, stored, ended>>
  BY DEF StartServer, RegistryAnswers, RegistryFails, requests, records
<1>2. server \in {"down", "connecting"}
  BY DEF StartServer, RegistryAnswers, RegistryFails
<1>3. server' \in {"down", "connecting", "up", "flushing"}
  BY DEF StartServer, RegistryAnswers, RegistryFails
<1>4. attempt' \in 0 .. Retries + 1 /\ processes' \in 0 .. MaxProcesses
  <2>t. attempt \in 0 .. Retries + 1 /\ processes \in 0 .. MaxProcesses
    BY DEF IngestInv, IngestTypeOK
  <2>1. CASE StartServer
    <3>1. attempt' = 0 /\ processes' = processes + 1 /\ processes < MaxProcesses
      BY <2>1 DEF StartServer
    <3> QED
      BY <2>t, <3>1, IngestionAssumption
  <2>2. CASE RegistryAnswers
    BY <2>t, <2>2 DEF RegistryAnswers
  <2>3. CASE RegistryFails
    <3>1. attempt' = attempt + 1 /\ processes' = processes /\ attempt <= Retries
      BY <2>3 DEF RegistryFails, IngestInv
    <3> QED
      BY <2>t, <3>1, IngestionAssumption
  <2> QED
    BY <2>1, <2>2, <2>3
<1>5. IngestTypeOK'
  BY <1>1, <1>3, <1>4 DEF IngestInv, IngestTypeOK
<1>6. \A n \in 1 .. Len(posts) : event[n] \notin {"memory", "failed"}
  BY <1>2 DEF IngestInv
<1>7. ASSUME NEW n \in 1 .. Len(posts), NEW code \in Outcome, Honest(n, code)
      PROVE  Honest(n, code)'
  BY <1>1, <1>6, <1>7 DEF Honest
<1>8. answer' = ""
  BY <1>1, <1>2 DEF IngestInv
<1>9. server' = "connecting" => attempt' <= Retries
  <2>1. CASE StartServer
    <3>1. attempt' = 0
      BY <2>1 DEF StartServer
    <3> QED
      BY <3>1, IngestionAssumption
  <2>2. CASE RegistryAnswers
    BY <2>2 DEF RegistryAnswers
  <2>3. CASE RegistryFails
    <3>1. server' = "connecting" => attempt' < Retries
      BY <2>3 DEF RegistryFails
    <3>2. attempt' \in Nat
      BY <1>4
    <3> QED
      BY <3>1, <3>2, IngestionAssumption
  <2> QED
    BY <2>1, <2>2, <2>3
<1> QED
  BY <1>1, <1>5, <1>6, <1>7, <1>8, <1>9, OtherStep

\* The answer is written, or cannot be.
LEMMA RespondStep ==
  ASSUME IngestInv, Respond
  PROVE  IngestInv'
<1>1. PICK outcome \in {answer, "closed"} :
        posts' = [posts EXCEPT ![Len(posts)] = outcome]
  BY DEF Respond
<1>2. /\ answer # "" /\ answer' = "" /\ server' = server /\ attempt' = attempt
      /\ UNCHANGED <<processes, ended, event, letter, stored>>
  BY DEF Respond, process, records
<1>3. posts \in Seq(Outcome) /\ Len(posts) \in Nat
  BY IngestFacts DEF IngestInv, IngestTypeOK
<1>4. Len(posts) \in 1 .. Len(posts)
  <2>1. Len(posts) > 0
    BY <1>2 DEF IngestInv
  <2> QED
    BY <1>3, <2>1, LastIndex, Zenon
<1>5. outcome \in Outcome
  <2>1. answer \in Outcome \cup {""} /\ "closed" \in Outcome
    BY DEF IngestInv, IngestTypeOK, Outcome
  <2> QED
    BY <1>1, <1>2, <2>1
<1>6. /\ posts' \in Seq(Outcome) /\ Len(posts') = Len(posts)
      /\ posts'[Len(posts)] = outcome
      /\ \A j \in 1 .. Len(posts) : j # Len(posts) => posts'[j] = posts[j]
  BY <1>1, <1>3, <1>4, <1>5, SeqReplaced
<1>7. ASSUME NEW n \in 1 .. Len(posts)
      PROVE  \/ posts'[n] = posts[n]
             \/ posts'[n] = "closed"
             \/ n = Len(posts) /\ answer # "" /\ posts'[n] = answer
  <2>1. CASE n = Len(posts)
    BY <1>1, <1>2, <1>6, <2>1, Zenon
  <2>2. CASE n # Len(posts)
    BY <1>6, <2>2, Zenon
  <2> QED
    BY <2>1, <2>2
<1>8. IngestTypeOK'
  BY <1>2, <1>6 DEF IngestInv, IngestTypeOK
<1>9. ASSUME NEW n \in 1 .. Len(posts), NEW code \in Outcome, Honest(n, code)
      PROVE  Honest(n, code)'
  BY <1>2, <1>9 DEF Honest
<1>10. server' \in {"down", "connecting"} =>
         \A n \in 1 .. Len(posts) : event'[n] \notin {"memory", "failed"}
  BY <1>2 DEF IngestInv
<1>11. server' = "connecting" => attempt' <= Retries
  BY <1>2 DEF IngestInv
<1> QED
  BY <1>2, <1>6, <1>7, <1>8, <1>9, <1>10, <1>11, OtherStep

\* The broker, or the lack of its answer.
LEMMA BrokerStep ==
  ASSUME IngestInv, EventDelivered \/ EventTimesOut
  PROVE  IngestInv'
<1>1. PICK n \in DOMAIN event, place \in {"delivered", "failed"} :
        /\ event[n] = "memory"
        /\ event' = [event EXCEPT ![n] = place]
        /\ place = "delivered" => stored' = stored \cup {n}
        /\ stored' \in {stored, stored \cup {n}}
  BY DEF EventDelivered, EventTimesOut
<1>2. UNCHANGED <<server, attempt, processes, ended, posts, answer, letter>>
  BY DEF EventDelivered, EventTimesOut, process, requests
<1>3. event \in Seq(Place) /\ Len(event) = Len(posts) /\ stored \subseteq 1 .. Len(posts)
  BY DEF IngestInv, IngestTypeOK
<1>4. n \in 1 .. Len(posts) /\ n \in 1 .. Len(event)
  BY IngestFacts DEF IngestInv
<1>5. place \in Place
  BY DEF Place
<1>6. /\ event' \in Seq(Place) /\ Len(event') = Len(posts)
      /\ event'[n] = place
      /\ \A j \in 1 .. Len(posts) : j # n => event'[j] = event[j]
  BY <1>1, <1>3, <1>4, <1>5, SeqReplaced
<1>7. stored' \subseteq 1 .. Len(posts) /\ stored \subseteq stored'
  BY <1>1, <1>3, <1>4
<1>8. IngestTypeOK'
  BY <1>2, <1>6, <1>7 DEF IngestInv, IngestTypeOK
<1>9. ASSUME NEW m \in 1 .. Len(posts), NEW code \in Outcome, Honest(m, code)
      PROVE  Honest(m, code)'
  <2>1. CASE m = n
    <3>1. server \notin {"down", "connecting"}
      BY <1>1, <1>4 DEF IngestInv
    <3>2. code \notin {"400", "404", "500"}
      BY <1>1, <1>9, <2>1 DEF Honest
    <3>3. n \in stored' \/ event'[n] = "failed"
      BY <1>1, <1>6
    <3> QED
      BY <1>1, <1>2, <1>7, <1>9, <2>1, <3>1, <3>2, <3>3 DEF Honest
  <2>2. CASE m # n
    <3>1. event'[m] = event[m]
      BY <1>6, <2>2
    <3>2. m \in stored' <=> m \in stored
      BY <1>1, <2>2
    <3> QED
      BY <1>2, <1>9, <3>1, <3>2 DEF Honest
  <2> QED
    BY <2>1, <2>2
<1>10. server' \in {"down", "connecting"} =>
         \A m \in 1 .. Len(posts) : event'[m] \notin {"memory", "failed"}
  BY <1>1, <1>2, <1>4 DEF IngestInv
<1>11. server' = "connecting" => attempt' <= Retries
  BY <1>2 DEF IngestInv
<1> QED
  BY <1>2, <1>8, <1>9, <1>10, <1>11, OtherStep

\* A dead letter leaves the memory.
LEMMA LetterStep ==
  ASSUME IngestInv, LetterSent
  PROVE  IngestInv'
<1>1. PICK n \in DOMAIN letter, place \in {"delivered", "failed"} :
        letter[n] = "memory" /\ letter' = [letter EXCEPT ![n] = place]
  BY DEF LetterSent
<1>2. UNCHANGED <<server, attempt, processes, ended, posts, answer, event, stored>>
  BY DEF LetterSent, process, requests
<1>3. letter \in Seq(LetterPlace) /\ Len(letter) = Len(posts)
  BY DEF IngestInv, IngestTypeOK
<1>4. n \in 1 .. Len(letter)
  BY <1>3, IngestFacts DEF IngestInv
<1>5. place \in LetterPlace
  BY DEF LetterPlace
<1>6. /\ letter' \in Seq(LetterPlace) /\ Len(letter') = Len(posts)
      /\ letter'[n] = place
      /\ \A j \in 1 .. Len(posts) : j # n => letter'[j] = letter[j]
  BY <1>1, <1>3, <1>4, <1>5, SeqReplaced
<1>7. IngestTypeOK'
  BY <1>2, <1>6 DEF IngestInv, IngestTypeOK
<1>8. ASSUME NEW m \in 1 .. Len(posts)
      PROVE  letter[m] # "none" => letter'[m] # "none"
  <2>1. CASE m = n
    BY <1>6, <2>1
  <2>2. CASE m # n
    BY <1>6, <2>2
  <2> QED
    BY <2>1, <2>2
<1>9. ASSUME NEW m \in 1 .. Len(posts), NEW code \in Outcome, Honest(m, code)
      PROVE  Honest(m, code)'
  BY <1>2, <1>8, <1>9 DEF Honest
<1> QED
  BY <1>2, <1>7, <1>9, OtherStep DEF IngestInv

\* The server stops, in order or not, and what was in memory is lost.
LEMMA InterruptStep ==
  ASSUME IngestInv, Interrupt
  PROVE  IngestInv'
<1>1. CloseConnection /\ server' = "flushing"
      /\ UNCHANGED <<attempt, processes, ended, event, letter, stored>>
  BY DEF Interrupt, records
<1>2. /\ posts' \in Seq(Outcome) /\ Len(posts') = Len(posts)
      /\ \A n \in 1 .. Len(posts) : posts'[n] = posts[n] \/ posts'[n] = "closed"
      /\ answer' = ""
  BY <1>1, ConnectionClosed
<1>3. IngestTypeOK'
  BY <1>1, <1>2 DEF IngestInv, IngestTypeOK
<1>4. ASSUME NEW n \in 1 .. Len(posts), NEW code \in Outcome, Honest(n, code)
      PROVE  Honest(n, code)'
  BY <1>1, <1>4 DEF Honest
<1>5. server' # "down" /\ server' # "connecting"
  BY <1>1
<1> QED
  BY <1>2, <1>3, <1>4, <1>5, OtherStep

LEMMA EndStep ==
  ASSUME IngestInv, ProcessEnds
  PROVE  IngestInv'
<1>1. CloseConnection /\ server' = "down" /\ ended' = Len(posts)
      /\ UNCHANGED <<attempt, processes, stored>>
  BY DEF ProcessEnds
<1>2. /\ posts' \in Seq(Outcome) /\ Len(posts') = Len(posts)
      /\ \A n \in 1 .. Len(posts) : posts'[n] = posts[n] \/ posts'[n] = "closed"
      /\ answer' = ""
  BY <1>1, ConnectionClosed
<1>3. /\ Len(posts) \in Nat
      /\ DOMAIN event = 1 .. Len(posts) /\ DOMAIN letter = 1 .. Len(posts)
      /\ \A n \in 1 .. Len(posts) : event[n] \in Place /\ letter[n] \in LetterPlace
  BY IngestFacts DEF IngestInv
<1>4. /\ event' = [n \in 1 .. Len(posts) |->
                   IF event[n] \in {"memory", "failed"} THEN "lost" ELSE event[n]]
      /\ letter' = [n \in 1 .. Len(posts) |->
                    IF letter[n] = "memory" THEN "lost" ELSE letter[n]]
  BY <1>3 DEF ProcessEnds
<1>5. event' \in [1 .. Len(posts) -> Place] /\ letter' \in [1 .. Len(posts) -> LetterPlace]
  <2>1. \A n \in 1 .. Len(posts) :
          /\ (IF event[n] \in {"memory", "failed"} THEN "lost" ELSE event[n]) \in Place
          /\ (IF letter[n] = "memory" THEN "lost" ELSE letter[n]) \in LetterPlace
    BY <1>3 DEF Place, LetterPlace
  <2> QED
    BY <1>4, <2>1
<1>6. /\ event' \in Seq(Place) /\ Len(event') = Len(posts)
      /\ letter' \in Seq(LetterPlace) /\ Len(letter') = Len(posts)
  BY <1>3, <1>5, SeqOfFunction
<1>7. ASSUME NEW n \in 1 .. Len(posts)
      PROVE  /\ event[n] \in {"memory", "failed"} => event'[n] = "lost"
             /\ event[n] \notin {"memory", "failed"} => event'[n] = event[n]
             /\ letter[n] # "none" => letter'[n] # "none"
  BY <1>4
<1>8. ended' \in 0 .. Len(posts')
  <2>1. ended' = Len(posts) /\ Len(posts') = Len(posts) /\ Len(posts) \in Nat
    BY <1>1, <1>2, <1>3
  <2> QED
    BY <2>1
<1>9. IngestTypeOK'
  BY <1>1, <1>2, <1>6, <1>8 DEF IngestInv, IngestTypeOK
<1>10. ended \in 0 .. Len(posts)
  BY DEF IngestInv, IngestTypeOK
<1>11. ASSUME NEW n \in 1 .. Len(posts), NEW code \in Outcome, Honest(n, code)
       PROVE  Honest(n, code)'
  <2>1. n <= ended'
    BY <1>1, <1>3
  <2>2. CASE event[n] \in {"memory", "failed"}
    <3>1. event'[n] = "lost"
      BY <1>7, <2>2
    <3>2. code \notin {"400", "404", "500"}
      BY <1>11, <2>2 DEF Honest
    <3> QED
      BY <2>1, <3>1, <3>2 DEF Honest
  <2>3. CASE event[n] \notin {"memory", "failed"}
    BY <1>1, <1>7, <1>11, <2>1, <2>3 DEF Honest
  <2> QED
    BY <2>2, <2>3
<1>12. \A n \in 1 .. Len(posts) : event'[n] \notin {"memory", "failed"}
  BY <1>7
<1>13. server' # "connecting"
  BY <1>1
<1> QED
  BY <1>2, <1>9, <1>11, <1>12, <1>13, OtherStep

\* The flush serves the reports that wait.
LEMMA FlushStep ==
  ASSUME IngestInv, FlushPolls
  PROVE  IngestInv'
<1>1. /\ ServeReports(event, letter) /\ server' = "flushing" /\ server = "flushing"
      /\ UNCHANGED <<attempt, processes, ended, posts, answer, stored>>
  BY DEF FlushPolls, process, requests
<1>2. event \in Seq(Place) /\ letter \in Seq(LetterPlace)
      /\ Len(event) = Len(posts) /\ Len(letter) = Len(posts)
  BY DEF IngestInv, IngestTypeOK
<1>3. /\ event' \in Seq(Place) /\ Len(event') = Len(posts)
      /\ letter' \in Seq(LetterPlace) /\ Len(letter') = Len(posts)
      /\ \A n \in 1 .. Len(posts) :
           \/ event[n] # "failed" /\ event'[n] = event[n] /\ letter'[n] = letter[n]
           \/ event[n] = "failed" /\ event'[n] = "reported" /\ letter'[n] \in {"memory", "failed"}
  BY <1>1, <1>2, ReportsStep
<1>4. IngestTypeOK'
  BY <1>1, <1>3 DEF IngestInv, IngestTypeOK
<1>5. ASSUME NEW n \in 1 .. Len(posts), NEW code \in Outcome, Honest(n, code)
      PROVE  Honest(n, code)'
  BY <1>1, <1>3, <1>5 DEF Honest
<1>6. server' # "down" /\ server' # "connecting"
  BY <1>1
<1> QED
  BY <1>1, <1>3, <1>4, <1>5, <1>6, OtherStep

LEMMA IngestStep ==
  ASSUME IngestInv, [IngestNext]_ingestVars
  PROVE  IngestInv'
<1>1. CASE StartServer \/ RegistryAnswers \/ RegistryFails
  BY <1>1, StartStep
<1>2. CASE PostInvalid \/ PostUnmaskable \/ PostFails
  BY <1>2, RefusedStep
<1>3. CASE PostPublished
  BY <1>3, PublishedStep
<1>4. CASE Respond
  BY <1>4, RespondStep
<1>5. CASE EventDelivered \/ EventTimesOut
  BY <1>5, BrokerStep
<1>6. CASE LetterSent
  BY <1>6, LetterStep
<1>7. CASE Interrupt
  BY <1>7, InterruptStep
<1>8. CASE ProcessEnds
  BY <1>8, EndStep
<1>9. CASE FlushPolls
  BY <1>9, FlushStep
<1>10. CASE UNCHANGED ingestVars
  <2>1. UNCHANGED <<server, attempt, processes, ended, posts, answer, event, letter, stored>>
    BY <1>10 DEF ingestVars, process, requests, records
  <2> QED
    BY <2>1 DEF IngestInv, IngestTypeOK, Honest
<1> QED
  BY <1>1, <1>2, <1>3, <1>4, <1>5, <1>6, <1>7, <1>8, <1>9, <1>10 DEF IngestNext

LEMMA IngestMeans == IngestInv => AnswersHonest
<1> SUFFICES ASSUME IngestInv
             PROVE  AnswersHonest
  OBVIOUS
<1>1. DOMAIN posts = 1 .. Len(posts)
  BY IngestFacts DEF IngestInv
<1> QED
  BY <1>1 DEF IngestInv, Honest, AnswersHonest

-----------------------------------------------------------------------------
(* The calls of the model. *)

\* A closed breaker counts the model's failures, an open one the ticks since the
\* last of them; the listener's time is the breaker's until the next trial; and
\* what a client of the API was told is not longer than the breaker stays open.
ModelInv ==
  /\ mlBreaker \in Breaker
  /\ openedAgo \in 0 .. ResetTimeout /\ promised \in 0 .. ResetTimeout
  /\ failedCalls \in Nat /\ sinceFailure \in 0 .. ResetTimeout
  /\ ~mlBreaker.open => mlBreaker.failures = failedCalls /\ failedCalls < FailMax
  /\ mlBreaker.open => mlBreaker.sinceOpen = sinceFailure
  /\ openedAgo < ResetTimeout =>
       mlBreaker.open /\ poolThread = "idle" /\ mlBreaker.sinceOpen = openedAgo
  /\ poolThread = "opening" => mlBreaker.open /\ mlBreaker.sinceOpen = 0
  /\ promised > 0 =>
       mlBreaker.open /\ poolThread = "idle" /\ promised <= ResetTimeout - mlBreaker.sinceOpen

\* What the breaker is after a call and after a tick.
LEMMA BreakerFields ==
  ASSUME NEW b \in Breaker
  PROVE  /\ b.open \in BOOLEAN /\ b.failures \in Nat /\ b.sinceOpen \in 0 .. ResetTimeout
         /\ ClosedBreaker \in Breaker /\ ~ClosedBreaker.open /\ ClosedBreaker.failures = 0
         /\ AfterFailure(b) \in Breaker
         /\ AfterFailure(b).open <=> Trips(b)
         /\ AfterFailure(b).failures = b.failures + 1
         /\ Trips(b) => AfterFailure(b).sinceOpen = 0
         /\ Aged(b) \in Breaker
         /\ Aged(b).open = b.open /\ Aged(b).failures = b.failures
         /\ Aged(b).sinceOpen = Saturate(b.sinceOpen, ResetTimeout)
BY BreakerAssumption DEF Breaker, ClosedBreaker, AfterFailure, Trips, Aged, Saturate

LEMMA ModelInitially == ModelInit => ModelInv
<1> SUFFICES ASSUME ModelInit
             PROVE  ModelInv
  OBVIOUS
<1>1. mlBreaker \in Breaker /\ ~mlBreaker.open /\ mlBreaker.failures = 0
  <2>1. mlBreaker = ClosedBreaker
    BY DEF ModelInit
  <2>2. ClosedBreaker \in Breaker /\ ~ClosedBreaker.open /\ ClosedBreaker.failures = 0
    BY BreakerAssumption DEF ClosedBreaker, Breaker
  <2> QED
    BY <2>1, <2>2
<1>2. openedAgo = ResetTimeout /\ sinceFailure = ResetTimeout /\ failedCalls = 0 /\ promised = 0
  BY DEF ModelInit
<1>3. poolThread = "idle"
  BY DEF ModelInit
<1> QED
  BY <1>1, <1>2, <1>3, BreakerAssumption DEF ModelInv

\* The model is entered only when it may be, and nobody was told otherwise.
LEMMA EnterStep ==
  ASSUME ModelInv, CallModel
  PROVE  /\ failedCalls < FailMax \/ sinceFailure >= ResetTimeout
         /\ promised = 0
         /\ ModelInv'
<1>1. /\ mlBreaker.open => mlBreaker.sinceOpen >= ResetTimeout
      /\ UNCHANGED <<mlBreaker, openedAgo, promised, failedCalls, sinceFailure>>
  BY DEF CallModel, Allows, report, modelGhosts
<1>2. poolThread' = "model" /\ poolThread = "idle"
  BY DEF CallModel, TakeScore
<1>3. /\ mlBreaker.open \in BOOLEAN /\ mlBreaker.sinceOpen \in 0 .. ResetTimeout
      /\ openedAgo \in 0 .. ResetTimeout /\ promised \in 0 .. ResetTimeout
  BY BreakerFields DEF ModelInv
<1>4. openedAgo = ResetTimeout
  BY <1>1, <1>3, BreakerAssumption DEF ModelInv
<1>5. promised = 0
  BY <1>1, <1>3, BreakerAssumption DEF ModelInv
<1>6. failedCalls < FailMax \/ sinceFailure >= ResetTimeout
  BY <1>1, <1>3 DEF ModelInv
<1>7. ModelInv'
  <2>1. ~(openedAgo' < ResetTimeout) /\ ~(promised' > 0)
    BY <1>1, <1>4, <1>5, BreakerAssumption
  <2>2. poolThread' # "opening"
    BY <1>2
  <2> QED
    BY <1>1, <2>1, <2>2 DEF ModelInv
<1> QED
  BY <1>5, <1>6, <1>7

\* While the thread is in the model nobody has a time of a next probe.
LEMMA InModel ==
  ASSUME ModelInv, poolThread # "idle"
  PROVE  openedAgo = ResetTimeout /\ promised = 0
<1>1. ~(openedAgo < ResetTimeout) /\ ~(promised > 0)
  BY DEF ModelInv
<1>2. openedAgo \in 0 .. ResetTimeout /\ promised \in 0 .. ResetTimeout
  BY DEF ModelInv
<1> QED
  BY <1>1, <1>2, BreakerAssumption

LEMMA AnswerStep ==
  ASSUME ModelInv, ModelReturns \/ ModelRaises
  PROVE  ModelInv'
<1>1. poolThread = "model" /\ openedAgo' = openedAgo /\ promised' = promised
  BY DEF ModelReturns, ModelRaises, report
<1>2. poolThread # "idle"
  BY <1>1
<1>3. openedAgo' = ResetTimeout /\ promised' = 0
  BY <1>1, <1>2, InModel
<1>4. mlBreaker \in Breaker /\ failedCalls \in Nat /\ sinceFailure \in 0 .. ResetTimeout
  BY DEF ModelInv
<1>5. CASE ModelReturns
  <2>1. mlBreaker' = ClosedBreaker /\ failedCalls' = 0 /\ sinceFailure' = sinceFailure
    BY <1>5 DEF ModelReturns, AfterSuccess
  <2>2. poolThread' = "idle"
    BY <1>5 DEF ModelReturns
  <2>3. mlBreaker' \in Breaker /\ ~mlBreaker'.open /\ mlBreaker'.failures = 0
    BY <1>4, <2>1, BreakerFields
  <2> QED
    BY <1>3, <1>4, <2>1, <2>2, <2>3, BreakerAssumption DEF ModelInv
<1>6. CASE ModelRaises
  <2>1. mlBreaker' = AfterFailure(mlBreaker) /\ failedCalls' = failedCalls + 1
        /\ sinceFailure' = 0
    BY <1>6 DEF ModelRaises
  <2>2. poolThread' = "opening" => Trips(mlBreaker)
    BY <1>6 DEF ModelRaises
  <2>3. /\ mlBreaker' \in Breaker
        /\ mlBreaker'.open <=> Trips(mlBreaker)
        /\ mlBreaker'.failures = mlBreaker.failures + 1
        /\ Trips(mlBreaker) => mlBreaker'.sinceOpen = 0
    BY <1>4, <2>1, BreakerFields
  <2>4. ~Trips(mlBreaker) => mlBreaker.failures = failedCalls /\ failedCalls + 1 < FailMax
    <3>1. ~Trips(mlBreaker) => ~mlBreaker.open /\ ~(mlBreaker.failures + 1 >= FailMax)
      BY DEF Trips
    <3>2. ~mlBreaker.open => mlBreaker.failures = failedCalls
      BY DEF ModelInv
    <3> QED
      BY <1>4, <3>1, <3>2, BreakerAssumption
  <2> QED
    BY <1>3, <1>4, <2>1, <2>2, <2>3, <2>4, BreakerAssumption DEF ModelInv
<1> QED
  BY <1>5, <1>6

LEMMA NotifiedStep ==
  ASSUME ModelInv, OpeningNotified
  PROVE  ModelInv'
<1>1. /\ poolThread = "opening" /\ poolThread' = "idle"
      /\ UNCHANGED <<mlBreaker, promised, failedCalls, sinceFailure>>
  BY DEF OpeningNotified, report, modelGhosts
<1>2. openedAgo' = 0
  BY DEF OpeningNotified
<1>3. mlBreaker.open /\ mlBreaker.sinceOpen = 0
  BY <1>1 DEF ModelInv
<1>4. promised = 0
  BY <1>1, InModel
<1> QED
  BY <1>1, <1>2, <1>3, <1>4, BreakerAssumption DEF ModelInv

LEMMA ReportStep ==
  ASSUME ModelInv, ReportBreaker
  PROVE  ModelInv'
<1>1. UNCHANGED <<mlBreaker, openedAgo, poolThread, failedCalls, sinceFailure>>
  BY DEF ReportBreaker, pool, modelGhosts
<1>2. promised' = promised \/ (promised' = ResetTimeout - openedAgo /\ promised' > promised)
      \/ (promised' = 0 /\ promised' > promised)
  BY DEF ReportBreaker, NextProbe
<1>3. openedAgo \in 0 .. ResetTimeout /\ promised \in 0 .. ResetTimeout
  BY DEF ModelInv
<1>4. promised' = promised \/ (promised' = ResetTimeout - openedAgo /\ openedAgo < ResetTimeout)
  BY <1>2, <1>3, BreakerAssumption
<1>5. promised' \in 0 .. ResetTimeout
  BY <1>3, <1>4, BreakerAssumption
<1>6. promised' > 0 =>
        mlBreaker.open /\ poolThread = "idle" /\ promised' <= ResetTimeout - mlBreaker.sinceOpen
  <2>1. CASE promised' = promised
    BY <2>1 DEF ModelInv
  <2>2. CASE promised' = ResetTimeout - openedAgo /\ openedAgo < ResetTimeout
    <3>1. mlBreaker.open /\ poolThread = "idle" /\ mlBreaker.sinceOpen = openedAgo
      BY <2>2 DEF ModelInv
    <3>2. promised' <= ResetTimeout - mlBreaker.sinceOpen
      BY <1>3, <2>2, <3>1, BreakerAssumption
    <3> QED
      BY <3>1, <3>2
  <2> QED
    BY <1>4, <2>1, <2>2
<1> QED
  BY <1>1, <1>5, <1>6 DEF ModelInv

LEMMA TickStep ==
  ASSUME ModelInv, ModelTick
  PROVE  ModelInv'
<1>1. /\ mlBreaker' = Aged(mlBreaker)
      /\ openedAgo' = Saturate(openedAgo, ResetTimeout)
      /\ promised' = IF promised = 0 THEN 0 ELSE promised - 1
      /\ sinceFailure' = Saturate(sinceFailure, ResetTimeout)
      /\ failedCalls' = failedCalls
  BY DEF ModelTick
<1>2. poolThread' = poolThread /\ poolThread # "opening"
  BY DEF ModelTick, pool
<1>3. /\ mlBreaker \in Breaker /\ openedAgo \in 0 .. ResetTimeout
      /\ promised \in 0 .. ResetTimeout /\ sinceFailure \in 0 .. ResetTimeout
      /\ failedCalls \in Nat
  BY DEF ModelInv
<1>4. /\ mlBreaker' \in Breaker
      /\ mlBreaker'.open = mlBreaker.open /\ mlBreaker'.failures = mlBreaker.failures
      /\ mlBreaker'.sinceOpen = Saturate(mlBreaker.sinceOpen, ResetTimeout)
      /\ mlBreaker.sinceOpen \in 0 .. ResetTimeout /\ mlBreaker.open \in BOOLEAN
  BY <1>1, <1>3, BreakerFields
<1>5. ASSUME NEW n \in 0 .. ResetTimeout
      PROVE  /\ Saturate(n, ResetTimeout) \in 0 .. ResetTimeout
             /\ Saturate(n, ResetTimeout) < ResetTimeout =>
                  n < ResetTimeout /\ Saturate(n, ResetTimeout) = n + 1
             /\ Saturate(n, ResetTimeout) <= n + 1
  BY BreakerAssumption DEF Saturate
<1>6. openedAgo' \in 0 .. ResetTimeout /\ sinceFailure' \in 0 .. ResetTimeout
      /\ promised' \in 0 .. ResetTimeout
  BY <1>1, <1>3, <1>5, BreakerAssumption
<1>7. ~mlBreaker'.open => mlBreaker'.failures = failedCalls' /\ failedCalls' < FailMax
  BY <1>1, <1>4 DEF ModelInv
<1>8. mlBreaker'.open => mlBreaker'.sinceOpen = sinceFailure'
  BY <1>1, <1>4 DEF ModelInv
<1>9. openedAgo' < ResetTimeout =>
        mlBreaker'.open /\ poolThread' = "idle" /\ mlBreaker'.sinceOpen = openedAgo'
  <2>1. openedAgo' < ResetTimeout => openedAgo < ResetTimeout
    BY <1>1, <1>3, <1>5
  <2> QED
    BY <1>1, <1>2, <1>4, <2>1 DEF ModelInv
<1>10. promised' > 0 =>
         /\ mlBreaker'.open /\ poolThread' = "idle"
         /\ promised' <= ResetTimeout - mlBreaker'.sinceOpen
  <2> SUFFICES ASSUME promised' > 0
               PROVE  /\ mlBreaker'.open /\ poolThread' = "idle"
                      /\ promised' <= ResetTimeout - mlBreaker'.sinceOpen
    OBVIOUS
  <2>1. promised > 0 /\ promised' = promised - 1
    BY <1>1, <1>3
  <2>2. mlBreaker.open /\ poolThread = "idle" /\ promised <= ResetTimeout - mlBreaker.sinceOpen
    BY <2>1 DEF ModelInv
  <2>3. mlBreaker'.sinceOpen <= mlBreaker.sinceOpen + 1 /\ mlBreaker'.sinceOpen \in 0 .. ResetTimeout
    BY <1>4, <1>5
  <2>4. promised' <= ResetTimeout - mlBreaker'.sinceOpen
    BY <1>3, <1>4, <2>1, <2>2, <2>3, BreakerAssumption
  <2> QED
    BY <1>2, <1>4, <2>2, <2>4
<1> QED
  BY <1>1, <1>2, <1>3, <1>4, <1>6, <1>7, <1>8, <1>9, <1>10 DEF ModelInv

LEMMA ModelStep ==
  ASSUME ModelInv, [ModelNext]_modelVars
  PROVE  /\ ModelInv'
         /\ ModelEntered =>
              promised = 0 /\ (failedCalls < FailMax \/ sinceFailure >= ResetTimeout)
<1>1. CASE CallModel
  BY <1>1, EnterStep
<1>2. CASE ModelReturns \/ ModelRaises
  <2>1. ~ModelEntered
    BY <1>2 DEF ModelReturns, ModelRaises, ModelEntered
  <2> QED
    BY <1>2, <2>1, AnswerStep
<1>3. CASE OpeningNotified
  <2>1. ~ModelEntered
    BY <1>3 DEF OpeningNotified, ModelEntered
  <2> QED
    BY <1>3, <2>1, NotifiedStep
<1>4. CASE ReportBreaker
  <2>1. ~ModelEntered
    BY <1>4 DEF ReportBreaker, pool, ModelEntered
  <2> QED
    BY <1>4, <2>1, ReportStep
<1>5. CASE ModelTick
  <2>1. ~ModelEntered
    BY <1>5 DEF ModelTick, pool, ModelEntered
  <2> QED
    BY <1>5, <2>1, TickStep
<1>6. CASE \/ SubmitScore \/ CallRefused \/ (\E i \in 1 .. MaxScores : ScoreWaitEnds(i))
           \/ SetCircuitBreaker \/ ReadBreaker \/ UNCHANGED modelVars
  <2>1. UNCHANGED <<mlBreaker, openedAgo, poolThread, promised, failedCalls, sinceFailure>>
    BY <1>6 DEF SubmitScore, CallRefused, ScoreWaitEnds, SetCircuitBreaker, ReadBreaker,
                pool, report, modelGhosts, modelVars
  <2>2. ~ModelEntered
    BY <2>1 DEF ModelEntered
  <2> QED
    BY <2>1, <2>2 DEF ModelInv
<1> QED
  BY <1>1, <1>2, <1>3, <1>4, <1>5, <1>6 DEF ModelNext

\* The calls, the thread they wait for and the report of the breaker.
PoolInv ==
  /\ scores \in Seq(CallState) /\ Len(scores) <= MaxScores
  /\ scoresTaken \in 0 .. Len(scores)
  /\ poolThread \in {"idle", "model", "opening"} /\ (poolThread # "idle" => scoresTaken > 0)
  /\ wired \in BOOLEAN
  /\ reading \in {"", "closed", "open", "half-open"}

LEMMA PoolInitially == ModelInit => PoolInv
<1> SUFFICES ASSUME ModelInit
             PROVE  PoolInv
  OBVIOUS
<1>1. scores = <<>> /\ scoresTaken = 0
  BY DEF ModelInit
<1>2. scores \in Seq(CallState) /\ Len(scores) = 0
  BY <1>1, SeqEmpty
<1>3. Len(scores) <= MaxScores /\ scoresTaken \in 0 .. Len(scores)
  BY <1>1, <1>2, ModelAssumption
<1>4. poolThread = "idle" /\ wired = FALSE /\ reading = ""
  BY DEF ModelInit
<1> QED
  BY <1>2, <1>3, <1>4 DEF PoolInv

\* A result for one of the calls.
LEMMA CallResolved ==
  ASSUME PoolInv, NEW i \in 1 .. Len(scores), NEW result \in CallState,
         scores' = [scores EXCEPT ![i] = result] \/ Resolve(i, result)
  PROVE  scores' \in Seq(CallState) /\ Len(scores') = Len(scores)
<1>1. scores \in Seq(CallState)
  BY DEF PoolInv
<1>2. scores[i] \in CallState
  BY <1>1
<1>3. PICK r \in CallState : scores' = [scores EXCEPT ![i] = r]
  BY <1>2 DEF Resolve
<1> QED
  BY <1>1, <1>3, SeqReplaced

LEMMA PoolStep ==
  ASSUME PoolInv, [ModelNext]_modelVars
  PROVE  PoolInv'
<1>n. PICK N \in Nat : N = Len(scores)
  BY SeqFacts DEF PoolInv
<1>1. scores \in Seq(CallState) /\ N <= MaxScores /\ scoresTaken \in 0 .. N
  BY <1>n DEF PoolInv
<1>2. {"waiting", "score", "fallback", "raised"} \subseteq CallState
  BY DEF CallState
<1>3. CASE SubmitScore
  <2>1. PICK w \in CallState : w = "waiting"
    BY <1>2
  <2>2. scores' = Append(scores, w) /\ N < MaxScores
    BY <1>3, <1>n, <2>1 DEF SubmitScore
  <2>3. scores' \in Seq(CallState) /\ Len(scores') = N + 1
    BY <1>1, <1>n, <2>2, SeqAppended
  <2>4. UNCHANGED <<scoresTaken, poolThread, wired, reading>>
    BY <1>3 DEF SubmitScore, report
  <2>5. Len(scores') <= MaxScores /\ scoresTaken' \in 0 .. Len(scores')
    <3>1. scoresTaken \in 0 .. N + 1 /\ N + 1 <= MaxScores
      BY <1>1, <2>2, ModelAssumption
    <3> QED
      BY <2>3, <2>4, <3>1
  <2> QED
    BY <2>3, <2>4, <2>5 DEF PoolInv
<1>4. CASE CallRefused \/ CallModel
  <2>1. PICK t \in 1 .. N : t = scoresTaken'
    <3>1. scoresTaken < N /\ scoresTaken' = scoresTaken + 1
      BY <1>4, <1>n DEF CallRefused, CallModel, TakeScore
    <3> QED
      BY <1>1, <3>1
  <2>2. scores' \in Seq(CallState) /\ Len(scores') = N
    <3>1. CASE CallRefused
      <4>1. PICK result \in CallState : result = "fallback"
        BY <1>2
      <4>2. Resolve(t, result)
        BY <3>1, <2>1, <4>1 DEF CallRefused
      <4> QED
        BY <1>n, <4>2, CallResolved
    <3>2. CASE CallModel
      <4>1. scores' = scores
        BY <3>2 DEF CallModel
      <4> QED
        BY <1>1, <1>n, <4>1
    <3> QED
      BY <1>4, <3>1, <3>2
  <2>3. UNCHANGED <<wired, reading>> /\ poolThread' \in {"idle", "model"}
    BY <1>4 DEF CallRefused, CallModel, TakeScore, report
  <2>4. scoresTaken' \in 0 .. N /\ scoresTaken' > 0
    BY <2>1
  <2> QED
    BY <1>n, <2>2, <2>3, <2>4 DEF PoolInv
<1>5. CASE ModelReturns \/ ModelRaises \/ OpeningNotified
  <2>1. poolThread # "idle" /\ scoresTaken' = scoresTaken
    BY <1>5 DEF ModelReturns, ModelRaises, OpeningNotified
  <2>2. PICK t \in 1 .. N : t = scoresTaken
    <3>1. scoresTaken > 0
      BY <2>1 DEF PoolInv
    <3> QED
      BY <1>1, <3>1
  <2>3. scores' \in Seq(CallState) /\ Len(scores') = N
    <3>1. CASE scores' = scores
      BY <1>1, <1>n, <3>1
    <3>2. CASE \E result \in CallState : Resolve(t, result)
      BY <1>n, <3>2, CallResolved
    <3>3. scores' = scores \/ \E result \in CallState : Resolve(t, result)
      BY <1>2, <1>5, <2>2 DEF ModelReturns, ModelRaises, OpeningNotified
    <3> QED
      BY <3>1, <3>2, <3>3
  <2>4. UNCHANGED <<wired, reading>> /\ poolThread' \in {"idle", "opening"}
    BY <1>5 DEF ModelReturns, ModelRaises, OpeningNotified, report
  <2>5. scoresTaken' \in 0 .. N /\ scoresTaken' > 0
    BY <2>1, <2>2
  <2> QED
    BY <1>n, <2>3, <2>4, <2>5 DEF PoolInv
<1>6. CASE \E i \in 1 .. MaxScores : ScoreWaitEnds(i)
  <2>1. PICK i \in DOMAIN scores : scores' = [scores EXCEPT ![i] = "fallback"]
    BY <1>6 DEF ScoreWaitEnds
  <2>2. i \in 1 .. Len(scores)
    BY <1>1, SeqFacts
  <2>3. PICK result \in CallState : result = "fallback"
    BY <1>2
  <2>4. scores' \in Seq(CallState) /\ Len(scores') = Len(scores)
    BY <2>1, <2>2, <2>3, CallResolved
  <2>5. UNCHANGED <<scoresTaken, poolThread, wired, reading>>
    BY <1>6 DEF ScoreWaitEnds, report
  <2> QED
    BY <2>4, <2>5 DEF PoolInv
<1>7. CASE SetCircuitBreaker \/ ReadBreaker \/ ReportBreaker \/ ModelTick \/ UNCHANGED modelVars
  <2>1. UNCHANGED <<scores, scoresTaken, poolThread>>
    BY <1>7 DEF SetCircuitBreaker, ReadBreaker, ReportBreaker, ModelTick, modelVars, pool
  <2>2. wired' \in BOOLEAN /\ reading' \in {"", "closed", "open", "half-open"}
    BY <1>7 DEF SetCircuitBreaker, ReadBreaker, BreakerState, ReportBreaker, ModelTick, modelVars,
                report, PoolInv
  <2> QED
    BY <2>1, <2>2 DEF PoolInv
<1> QED
  BY <1>3, <1>4, <1>5, <1>6, <1>7 DEF ModelNext

-----------------------------------------------------------------------------
(* The online features. *)

\* A vector that answers a request made when the store held since.
Current(vec, since) ==
  /\ Len(vec) = Groups
  /\ \A k \in 1 .. Groups : vec[k] > 0 /\ vec[k] >= since[GroupOrder[k]]

\* Unless it holds nothing, the store holds nothing older than what it held when a
\* lookup was made, and the same goes for what was read for the lookup so far.
ServingInv ==
  /\ ServingTypeOK
  /\ \A a \in Account, g \in Group : online[a][g] <= batch
  /\ \A i \in 1 .. Len(lookups), g \in Group :
       /\ lookups[i].since[g] <= batch
       /\ \/ online[lookups[i].account][g] = 0
          \/ online[lookups[i].account][g] >= lookups[i].since[g]
  /\ fetching =>
       \A k \in 1 .. Len(response) :
         response[k] = 0 \/ response[k] >= lookups[taken].since[GroupOrder[k]]
  /\ \A i \in 1 .. Len(lookups) :
       lookups[i].answer = "vector" => Current(lookups[i].vector, lookups[i].since)

LEMMA GroupFacts == Groups = 3 /\ \A k \in 1 .. Groups : GroupOrder[k] \in Group
<1>1. Len(GroupOrder) = 3
  BY DEF GroupOrder
<1>2. GroupOrder[1] \in Group /\ GroupOrder[2] \in Group /\ GroupOrder[3] \in Group
  BY DEF GroupOrder, Group
<1> QED
  BY <1>1, <1>2 DEF Groups

LEMMA ServingFacts ==
  ASSUME ServingTypeOK
  PROVE  /\ Len(lookups) \in Nat /\ Len(response) \in Nat
         /\ DOMAIN lookups = 1 .. Len(lookups)
         /\ \A i \in 1 .. Len(lookups) : lookups[i] \in Lookup
         /\ \A i \in 1 .. Len(response) : response[i] \in Stored
         /\ \A a \in Account, g \in Group : online[a][g] \in Stored
         /\ batch \in Nat
<1>1. lookups \in Seq(Lookup) /\ response \in Seq(Stored)
  BY DEF ServingTypeOK
<1>2. \A a \in Account, g \in Group : online[a][g] \in Stored
  BY DEF ServingTypeOK
<1>3. batch \in Nat
  BY ServingAssumption DEF ServingTypeOK
<1> QED
  BY <1>1, <1>2, <1>3, SeqFacts

LEMMA LookupFields ==
  ASSUME NEW r \in Lookup
  PROVE  /\ r.account \in Account /\ r.since \in [Group -> Stored]
         /\ r.answer \in {"waiting", "zero", "vector"} /\ r.vector \in Seq(Stored)
BY DEF Lookup

LEMMA ServingInitially == ServingInit => ServingInv
<1> SUFFICES ASSUME ServingInit
             PROVE  ServingInv
  OBVIOUS
<1>1. lookups = <<>> /\ response = <<>>
  BY DEF ServingInit
<1>2. lookups \in Seq(Lookup) /\ Len(lookups) = 0 /\ response \in Seq(Stored) /\ Len(response) = 0
  BY <1>1, SeqEmpty
<1>3. online = [a \in Account |-> [g \in Group |-> 0]] /\ batch = 0
  BY DEF ServingInit
<1>4. online \in [Account -> [Group -> Stored]] /\ batch \in 0 .. MaxBatches
  BY <1>3, ServingAssumption DEF Stored
<1>5. nextGroup \in 1 .. Groups + 1 /\ taken = 0
  BY GroupFacts DEF ServingInit
<1>6. client \in {"new", "open", "closed"}
  BY DEF ServingInit
<1>7. fetching = FALSE
  BY DEF ServingInit
<1>8. Len(lookups) <= MaxLookups /\ taken \in 0 .. Len(lookups) /\ Len(response) <= Groups
  BY <1>2, <1>5, ServingAssumption, GroupFacts
<1>9. ServingTypeOK
  BY <1>2, <1>4, <1>5, <1>6, <1>7, <1>8 DEF ServingTypeOK
<1>10. \A a \in Account, g \in Group : online[a][g] <= batch
  BY <1>3
<1>11. \A i \in 1 .. Len(lookups) : FALSE
  BY <1>2
<1> QED
  BY <1>7, <1>9, <1>10, <1>11 DEF ServingInv

\* A batch starts, and its groups are pushed.
LEMMA WriterStep ==
  ASSUME ServingInv, StartBatch \/ PushGroup
  PROVE  ServingInv'
<1>1. UNCHANGED <<client, lookups, taken, fetching, response>>
  BY DEF StartBatch, PushGroup, fetch
<1>2. ServingTypeOK
  BY DEF ServingInv
<1>3. /\ batch \in 0 .. MaxBatches /\ batch' \in 0 .. MaxBatches /\ batch <= batch'
      /\ nextGroup' \in 1 .. Groups + 1
      /\ online' \in [Account -> [Group -> Stored]]
      /\ \A a \in Account, g \in Group :
           online'[a][g] = online[a][g] \/ online'[a][g] = 0 \/ online'[a][g] = batch'
  <2>1. /\ batch \in 0 .. MaxBatches /\ nextGroup \in 1 .. Groups + 1
        /\ online \in [Account -> [Group -> Stored]]
    BY <1>2 DEF ServingTypeOK
  <2>2. CASE StartBatch
    BY <2>1, <2>2, ServingAssumption, GroupFacts DEF StartBatch
  <2>3. CASE PushGroup
    <3>1. nextGroup <= Groups /\ nextGroup' = nextGroup + 1 /\ batch' = batch
      BY <2>3 DEF PushGroup
    <3>2. PICK G \in Group : G = GroupOrder[nextGroup]
      BY <2>1, <3>1, GroupFacts
    <3>3. PICK accounts \in SUBSET Account, value \in {0, batch} :
            online' = [a \in Account |->
              IF a \in accounts THEN [online[a] EXCEPT ![G] = value] ELSE online[a]]
      BY <2>3, <3>2 DEF PushGroup, ValueOf
    <3>4. value \in Stored
      BY <2>1, <3>3, ServingAssumption DEF Stored
    <3>5. \A a \in Account : online'[a] \in [Group -> Stored]
      BY <2>1, <3>3, <3>4
    <3>6. online' \in [Account -> [Group -> Stored]]
      BY <3>3, <3>5
    <3>7. \A a \in Account, g \in Group : online'[a][g] = online[a][g] \/ online'[a][g] = value
      BY <2>1, <3>2, <3>3
    <3> QED
      BY <2>1, <3>1, <3>3, <3>6, <3>7, GroupFacts
  <2> QED
    BY <2>2, <2>3
<1>4. ServingTypeOK'
  BY <1>1, <1>2, <1>3 DEF ServingTypeOK
<1>5. \A a \in Account, g \in Group : online[a][g] \in Nat
  BY <1>2, ServingFacts DEF Stored
<1>6. ASSUME NEW a \in Account, NEW g \in Group
      PROVE  online'[a][g] <= batch'
  <2>1. online[a][g] <= batch /\ online[a][g] \in Nat
    BY <1>5 DEF ServingInv
  <2> QED
    BY <1>3, <2>1
<1>7. ASSUME NEW i \in 1 .. Len(lookups), NEW g \in Group
      PROVE  /\ lookups[i].since[g] <= batch'
             /\ \/ online'[lookups[i].account][g] = 0
                \/ online'[lookups[i].account][g] >= lookups[i].since[g]
  <2>1. PICK a \in Account : a = lookups[i].account
    BY <1>2, ServingFacts, LookupFields
  <2>2. PICK since \in Stored : since = lookups[i].since[g]
    BY <1>2, ServingFacts, LookupFields
  <2>3. since <= batch /\ (online[a][g] = 0 \/ online[a][g] >= since)
    BY <2>1, <2>2 DEF ServingInv
  <2>4. since \in Nat
    BY <2>2 DEF Stored
  <2>5. since <= batch' /\ (online'[a][g] = 0 \/ online'[a][g] >= since)
    BY <1>3, <2>3, <2>4
  <2> QED
    BY <2>1, <2>2, <2>5
<1> QED
  BY <1>1, <1>4, <1>6, <1>7 DEF ServingInv, Current

LEMMA LookupMade ==
  ASSUME ServingInv, GetFeatures
  PROVE  ServingInv'
<1>t. ServingTypeOK
  BY DEF ServingInv
<1>n. PICK N \in Nat : N = Len(lookups)
  BY <1>t, ServingFacts
<1>1. PICK a \in Account :
        lookups' = Append(lookups,
          [account |-> a, since |-> online[a], answer |-> "waiting", vector |-> <<>>])
  BY DEF GetFeatures
<1>2. UNCHANGED <<online, batch, nextGroup, client, taken, fetching, response>> /\ N < MaxLookups
  BY <1>n DEF GetFeatures, store, fetch
<1>3. PICK r \in Lookup : /\ lookups' = Append(lookups, r)
                          /\ r.account = a /\ r.since = online[a] /\ r.answer = "waiting"
  <2> DEFINE made == [account |-> a, since |-> online[a], answer |-> "waiting", vector |-> <<>>]
  <2>1. online[a] \in [Group -> Stored] /\ <<>> \in Seq(Stored)
    BY <1>t, SeqEmpty DEF ServingTypeOK
  <2>2. made \in Lookup
    BY <2>1 DEF Lookup
  <2>3. made.account = a /\ made.since = online[a] /\ made.answer = "waiting"
    OBVIOUS
  <2>4. lookups' = Append(lookups, made)
    BY <1>1
  <2> HIDE DEF made
  <2> QED
    BY <2>2, <2>3, <2>4
<1>4. /\ lookups' \in Seq(Lookup) /\ Len(lookups') = N + 1
      /\ \A i \in 1 .. N : lookups'[i] = lookups[i]
      /\ lookups'[N + 1] = r
  <2>1. lookups \in Seq(Lookup)
    BY <1>t DEF ServingTypeOK
  <2> QED
    BY <1>n, <1>3, <2>1, SeqAppended
<1>5. taken \in 0 .. N /\ (fetching => taken \in 1 .. N)
  BY <1>t, <1>n DEF ServingTypeOK
<1>6. Len(lookups') <= MaxLookups /\ taken \in 0 .. Len(lookups')
  BY <1>2, <1>4, <1>5, ServingAssumption
<1>7. ServingTypeOK'
  BY <1>t, <1>2, <1>4, <1>6 DEF ServingTypeOK
<1>8. ASSUME NEW i \in 1 .. N + 1
      PROVE  i \in 1 .. N \/ i = N + 1
  OBVIOUS
<1>9. ASSUME NEW i \in 1 .. N + 1, NEW g \in Group
      PROVE  /\ lookups'[i].since[g] <= batch
             /\ \/ online[lookups'[i].account][g] = 0
                \/ online[lookups'[i].account][g] >= lookups'[i].since[g]
  <2>1. CASE i \in 1 .. N
    BY <1>n, <1>4, <2>1 DEF ServingInv
  <2>2. CASE i = N + 1
    <3>1. PICK v \in Nat : v = online[a][g]
      BY <1>t, ServingFacts DEF Stored
    <3>2. v <= batch
      BY <3>1 DEF ServingInv
    <3> QED
      BY <1>3, <1>4, <2>2, <3>1, <3>2
  <2> QED
    BY <1>8, <2>1, <2>2
<1>10. ASSUME fetching, NEW k \in 1 .. Len(response)
       PROVE  response[k] = 0 \/ response[k] >= lookups'[taken].since[GroupOrder[k]]
  <2>1. lookups'[taken] = lookups[taken]
    BY <1>4, <1>5, <1>10
  <2> QED
    BY <1>10, <2>1 DEF ServingInv
<1>11. ASSUME NEW i \in 1 .. N + 1, lookups'[i].answer = "vector"
       PROVE  Current(lookups'[i].vector, lookups'[i].since)
  <2>1. CASE i \in 1 .. N
    BY <1>n, <1>4, <1>11, <2>1 DEF ServingInv
  <2>2. CASE i = N + 1
    BY <1>3, <1>4, <1>11, <2>2
  <2> QED
    BY <1>8, <2>1, <2>2
<1>12. \A a2 \in Account, g \in Group : online[a2][g] <= batch
  BY DEF ServingInv
<1> QED
  BY <1>2, <1>4, <1>7, <1>9, <1>10, <1>11, <1>12 DEF ServingInv, Current

\* The pool's thread takes a lookup and reads its groups.
LEMMA ReaderStep ==
  ASSUME ServingInv, StartFetch \/ ReadGroup
  PROVE  ServingInv'
<1>t. ServingTypeOK
  BY DEF ServingInv
<1>1. UNCHANGED <<online, batch, nextGroup, client, lookups>>
  BY DEF StartFetch, ReadGroup, store
<1>2. CASE StartFetch
  <2>1. taken' = taken + 1 /\ taken < Len(lookups) /\ fetching' = TRUE /\ response' = <<>>
    BY <1>2 DEF StartFetch
  <2>2. response' \in Seq(Stored) /\ Len(response') = 0
    BY <2>1, SeqEmpty
  <2>3. taken' \in 0 .. Len(lookups) /\ taken' > 0
    BY <1>t, <2>1, ServingFacts DEF ServingTypeOK
  <2>4. Len(response') <= Groups
    BY <2>2, GroupFacts
  <2>5. ServingTypeOK'
    BY <1>t, <1>1, <2>1, <2>2, <2>3, <2>4 DEF ServingTypeOK
  <2>6. \A k \in 1 .. Len(response') : FALSE
    BY <2>2
  <2> QED
    BY <1>1, <2>5, <2>6 DEF ServingInv, Current
<1>3. CASE ReadGroup
  <2>n. PICK N \in Nat : N = Len(response)
    BY <1>t, ServingFacts
  <2>1. fetching /\ N < Groups /\ taken' = taken /\ fetching' = fetching
    BY <1>3, <2>n DEF ReadGroup
  <2>2. taken \in 1 .. Len(lookups)
    BY <1>t, <2>1, ServingFacts DEF ServingTypeOK
  <2>3. PICK a \in Account : a = lookups[taken].account
    BY <1>t, <2>2, ServingFacts, LookupFields
  <2>4. PICK g \in Group : g = GroupOrder[N + 1]
    BY <2>1, GroupFacts
  <2>5. PICK v \in Stored : v = online[a][g]
    BY <1>t, ServingFacts
  <2>6. response' = Append(response, v)
    BY <1>3, <2>n, <2>3, <2>4, <2>5 DEF ReadGroup
  <2>7. /\ response' \in Seq(Stored) /\ Len(response') = N + 1
        /\ \A k \in 1 .. N : response'[k] = response[k]
        /\ response'[N + 1] = v
    <3>1. response \in Seq(Stored)
      BY <1>t DEF ServingTypeOK
    <3> QED
      BY <2>n, <2>6, <3>1, SeqAppended
  <2>8. Len(response') <= Groups
    BY <2>1, <2>7, GroupFacts
  <2>9. ServingTypeOK'
    BY <1>t, <1>1, <2>1, <2>7, <2>8 DEF ServingTypeOK
  <2>10. ASSUME NEW k \in 1 .. N + 1
         PROVE  response'[k] = 0 \/ response'[k] >= lookups[taken].since[GroupOrder[k]]
    <3>1. k \in 1 .. N \/ k = N + 1
      OBVIOUS
    <3>2. CASE k \in 1 .. N
      BY <2>n, <2>1, <2>7, <3>2 DEF ServingInv
    <3>3. CASE k = N + 1
      <4>1. v = 0 \/ v >= lookups[taken].since[g]
        BY <2>2, <2>3, <2>5 DEF ServingInv
      <4> QED
        BY <2>4, <2>7, <3>3, <4>1
    <3> QED
      BY <3>1, <3>2, <3>3
  <2> QED
    BY <1>1, <2>1, <2>7, <2>9, <2>10 DEF ServingInv, Current
<1> QED
  BY <1>2, <1>3

\* A lookup is over.
LEMMA LookupOver ==
  ASSUME ServingInv, NEW i \in 1 .. Len(lookups),
         NEW ans \in {"zero", "vector"}, NEW vec \in Seq(Stored),
         Answer(i, ans, vec),
         ans = "vector" => Current(vec, lookups[i].since),
         UNCHANGED <<online, batch, nextGroup, client, taken>>,
         \/ fetching' = FALSE /\ response' = <<>>
         \/ fetching' = fetching /\ response' = response
  PROVE  ServingInv'
<1>t. ServingTypeOK
  BY DEF ServingInv
<1>n. PICK N \in Nat : N = Len(lookups)
  BY <1>t, ServingFacts
<1>1. PICK r \in Lookup : r = lookups[i]
  BY <1>t, ServingFacts
<1>2. PICK q \in Lookup :
        /\ lookups' = [lookups EXCEPT ![i] = q]
        /\ q.account = r.account /\ q.since = r.since
        /\ q = r \/ (q.answer = ans /\ q.vector = vec)
  <2>1. CASE r.answer = "waiting"
    <3>3. PICK over : over = [r EXCEPT !.answer = ans, !.vector = vec]
      OBVIOUS
    <3>1. lookups' = [lookups EXCEPT ![i] = over]
      BY <1>1, <2>1, <3>3 DEF Answer
    <3>2. over \in Lookup /\ over.account = r.account /\ over.since = r.since
          /\ over.answer = ans /\ over.vector = vec
      BY <3>3 DEF Lookup
    <3> QED
      BY <3>1, <3>2
  <2>2. CASE r.answer # "waiting"
    <3>1. lookups' = [lookups EXCEPT ![i] = r]
      BY <1>1, <2>2 DEF Answer
    <3> QED
      BY <3>1
  <2> QED
    BY <2>1, <2>2
<1>3. /\ lookups' \in Seq(Lookup) /\ Len(lookups') = N
      /\ lookups'[i] = q
      /\ \A j \in 1 .. N : j # i => lookups'[j] = lookups[j]
  <2>1. lookups \in Seq(Lookup)
    BY <1>t DEF ServingTypeOK
  <2> QED
    BY <1>n, <1>2, <2>1, SeqReplaced
<1>4. \A j \in 1 .. N : /\ lookups'[j].since = lookups[j].since
                       /\ lookups'[j].account = lookups[j].account
  BY <1>1, <1>2, <1>3
<1>5. ServingTypeOK'
  <2>1. response \in Seq(Stored) /\ Len(response) <= Groups /\ fetching \in BOOLEAN
    BY <1>t DEF ServingTypeOK
  <2>2. CASE fetching' = FALSE /\ response' = <<>>
    <3>1. response' \in Seq(Stored) /\ Len(response') = 0
      BY <2>2, SeqEmpty
    <3>2. response' \in Seq(Stored) /\ Len(response') <= Groups
      BY <3>1, GroupFacts
    <3>3. fetching' = FALSE
      BY <2>2
    <3> QED
      BY <1>t, <1>n, <1>3, <3>2, <3>3 DEF ServingTypeOK
  <2>3. CASE fetching' = fetching /\ response' = response
    BY <1>t, <1>n, <1>3, <2>3 DEF ServingTypeOK
  <2> QED
    BY <2>2, <2>3
<1>6. ASSUME NEW j \in 1 .. N, lookups'[j].answer = "vector"
      PROVE  Current(lookups'[j].vector, lookups'[j].since)
  <2>1. CASE j # i \/ q = r
    <3>1. lookups'[j] = lookups[j]
      BY <1>1, <1>3, <2>1
    <3> QED
      BY <1>n, <1>6, <3>1 DEF ServingInv
  <2>2. CASE j = i /\ q.answer = ans /\ q.vector = vec
    BY <1>1, <1>2, <1>3, <1>6, <2>2
  <2> QED
    BY <1>2, <2>1, <2>2
<1>7. ASSUME fetching', NEW k \in 1 .. Len(response')
      PROVE  response'[k] = 0 \/ response'[k] >= lookups'[taken].since[GroupOrder[k]]
  <2>1. fetching /\ response' = response
    BY <1>7
  <2>2. taken \in 1 .. N
    BY <1>t, <1>n, <2>1 DEF ServingTypeOK
  <2> QED
    BY <1>4, <1>7, <2>1, <2>2 DEF ServingInv
<1>8. \A a \in Account, g \in Group : online'[a][g] <= batch'
  BY DEF ServingInv
<1>9. \A j \in 1 .. N, g \in Group :
        /\ lookups'[j].since[g] <= batch
        /\ \/ online[lookups'[j].account][g] = 0
           \/ online[lookups'[j].account][g] >= lookups'[j].since[g]
  BY <1>n, <1>4 DEF ServingInv
<1> QED
  BY <1>3, <1>5, <1>6, <1>7, <1>8, <1>9 DEF ServingInv, Current

\* The read ends, or its caller stops waiting.
LEMMA FetchStep ==
  ASSUME ServingInv, FetchReturns \/ FetchRaises
  PROVE  ServingInv'
<1>t. ServingTypeOK
  BY DEF ServingInv
<1>1. /\ fetching /\ fetching' = FALSE /\ response' = <<>>
      /\ UNCHANGED <<online, batch, nextGroup, client, taken>>
  BY DEF FetchReturns, FetchRaises, store
<1>2. taken \in 1 .. Len(lookups)
  BY <1>t, <1>1, ServingFacts DEF ServingTypeOK
<1>3. response \in Seq(Stored) /\ <<>> \in Seq(Stored)
  BY <1>t, SeqEmpty DEF ServingTypeOK
<1>4. CASE Answer(taken, "zero", <<>>)
  <2>1. PICK ans \in {"zero", "vector"}, vec \in Seq(Stored) : ans = "zero" /\ vec = <<>>
    BY <1>3
  <2>2. Answer(taken, ans, vec)
    BY <1>4, <2>1
  <2>3. ans # "vector"
    BY <2>1
  <2> QED
    BY <1>1, <1>2, <2>2, <2>3, LookupOver
<1>5. CASE Answer(taken, "vector", response) /\ Complete /\ Len(response) = Groups
  <2>1. PICK ans \in {"zero", "vector"}, vec \in Seq(Stored) : ans = "vector" /\ vec = response
    BY <1>3
  <2>2. Answer(taken, ans, vec)
    BY <1>5, <2>1
  <2>3. ASSUME NEW k \in 1 .. Groups
        PROVE  vec[k] > 0 /\ vec[k] >= lookups[taken].since[GroupOrder[k]]
    <3>1. k \in 1 .. Len(response)
      BY <1>5
    <3>2. response[k] > 0
      BY <1>3, <1>5, <3>1, SeqFacts DEF Complete
    <3>3. response[k] = 0 \/ response[k] >= lookups[taken].since[GroupOrder[k]]
      BY <1>1, <3>1 DEF ServingInv
    <3> QED
      BY <2>1, <3>2, <3>3
  <2>4. Current(vec, lookups[taken].since)
    BY <1>5, <2>1, <2>3 DEF Current
  <2> QED
    BY <1>1, <1>2, <2>2, <2>4, LookupOver
<1> QED
  BY <1>4, <1>5 DEF FetchReturns, FetchRaises

LEMMA WaitStep ==
  ASSUME ServingInv, NEW i \in 1 .. MaxLookups, LookupWaitEnds(i)
  PROVE  ServingInv'
<1>1. UNCHANGED <<online, batch, nextGroup, client, taken, fetching, response>>
  BY DEF LookupWaitEnds, store, fetch
<1>2. i \in 1 .. Len(lookups)
  BY ServingFacts DEF ServingInv, LookupWaitEnds
<1>3. <<>> \in Seq(Stored)
  BY SeqEmpty
<1>4. PICK ans \in {"zero", "vector"}, vec \in Seq(Stored) : ans = "zero" /\ vec = <<>>
  BY <1>3
<1>5. Answer(i, ans, vec) /\ ans # "vector"
  BY <1>4 DEF LookupWaitEnds
<1> QED
  BY <1>1, <1>2, <1>5, LookupOver

LEMMA ServingStep ==
  ASSUME ServingInv, [ServingNext]_servingVars
  PROVE  ServingInv'
<1>1. CASE StartBatch \/ PushGroup
  BY <1>1, WriterStep
<1>2. CASE GetFeatures
  BY <1>2, LookupMade
<1>3. CASE StartFetch \/ ReadGroup
  BY <1>3, ReaderStep
<1>4. CASE FetchReturns \/ FetchRaises
  BY <1>4, FetchStep
<1>5. CASE \E i \in 1 .. MaxLookups : LookupWaitEnds(i)
  BY <1>5, WaitStep
<1>6. CASE OpenClient \/ CloseClient \/ UNCHANGED servingVars
  <2>1. UNCHANGED <<online, batch, nextGroup, lookups, taken, fetching, response>>
    BY <1>6 DEF OpenClient, CloseClient, servingVars, store, fetch
  <2>2. client' \in {"new", "open", "closed"}
    BY <1>6 DEF ServingInv, ServingTypeOK, OpenClient, CloseClient, servingVars
  <2>3. ServingTypeOK'
    BY <2>1, <2>2 DEF ServingInv, ServingTypeOK
  <2> QED
    BY <2>1, <2>3 DEF ServingInv, Current
<1> QED
  BY <1>1, <1>2, <1>3, <1>4, <1>5, <1>6 DEF ServingNext

LEMMA ServingMeans == ServingInv => FeaturesCurrent
<1> SUFFICES ASSUME ServingInv
             PROVE  FeaturesCurrent
  OBVIOUS
<1>1. DOMAIN lookups = 1 .. Len(lookups)
  BY ServingFacts DEF ServingInv
<1> QED
  BY <1>1 DEF ServingInv, Current, FeaturesCurrent

-----------------------------------------------------------------------------
(* The live feed. *)

\* The alert that found the queue full is in nobody's queue yet.
InHand == IF feedThread = "full" THEN 1 ELSE 0

\* Offsets that poll returned or that a group without a commit jumped over.
Seen == ToSet(received) \cup garbled \cup skipped

\* What left the queue, what is in it and what is in hand are all that was received,
\* in that order; and the group's commit is no further than what was seen.
FeedInv ==
  /\ FeedTypeOK
  /\ Len(received) = gone + Len(feedQueue) + InHand
  /\ \A k \in 1 .. Len(feedQueue) : feedQueue[k] = received[gone + k]
  /\ position <= topicEnd + 1 /\ committed <= topicEnd + 1
  /\ feedThread \in {"polling", "full"} => position > 0
  /\ \A o \in 1 .. position - 1 : o \in Seen
  /\ \A o \in 1 .. committed - 1 : o \in Seen

LEMMA SeqTail ==
  ASSUME NEW S, NEW s \in Seq(S), s # <<>>
  PROVE  /\ Len(s) > 0
         /\ Tail(s) \in Seq(S) /\ Len(Tail(s)) = Len(s) - 1
         /\ \A k \in 1 .. Len(s) - 1 : Tail(s)[k] = s[k + 1]
OBVIOUS

LEMMA SeqLast ==
  ASSUME NEW S, NEW s \in Seq(S), Len(s) > 0
  PROVE  Last(s) = s[Len(s)] /\ Last(s) \in S
BY DEF Last

LEMMA SeqToSet ==
  ASSUME NEW S, NEW s \in Seq(S), NEW v \in S
  PROVE  ToSet(s) \subseteq ToSet(Append(s, v)) /\ v \in ToSet(Append(s, v))
<1>1. /\ Append(s, v) \in Seq(S) /\ Len(Append(s, v)) = Len(s) + 1
      /\ \A i \in 1 .. Len(s) : Append(s, v)[i] = s[i]
      /\ Append(s, v)[Len(s) + 1] = v
  BY SeqAppended
<1>2. DOMAIN s = 1 .. Len(s) /\ DOMAIN Append(s, v) = 1 .. Len(s) + 1 /\ Len(s) \in Nat
  BY <1>1, SeqFacts
<1>3. ASSUME NEW x \in ToSet(s)
      PROVE  x \in ToSet(Append(s, v))
  <2>1. PICK i \in 1 .. Len(s) : x = s[i]
    BY <1>2 DEF ToSet
  <2>2. i \in 1 .. Len(s) + 1 /\ Append(s, v)[i] = x
    BY <1>1, <1>2, <2>1
  <2> QED
    BY <1>2, <2>2 DEF ToSet
<1>4. v \in ToSet(Append(s, v))
  <2>1. Len(s) + 1 \in 1 .. Len(s) + 1
    BY <1>2
  <2> QED
    BY <1>1, <1>2, <2>1 DEF ToSet
<1> QED
  BY <1>3, <1>4

\* A step that neither receives nor takes, and sees no less.
LEMMA FeedOther ==
  ASSUME FeedInv,
         UNCHANGED <<feedQueue, received, gone>>,
         garbled \subseteq garbled', skipped \subseteq skipped',
         topicEnd' \in topicEnd .. MaxAlerts, garbled' \subseteq 1 .. topicEnd',
         skipped' \subseteq 1 .. MaxAlerts,
         feedThread' \in FeedThread,
         feedThread' = "full" <=> feedThread = "full",
         feedStop' \in BOOLEAN, polled' \in BOOLEAN,
         feedStarts' \in 0 .. MaxFeedStarts, feedErrors' \in 0 .. MaxFeedErrors,
         position' \in 0 .. topicEnd' + 1, committed' \in 0 .. topicEnd' + 1,
         feedThread' \in {"polling", "full"} => position' > 0,
         \A o \in 1 .. position' - 1 : o \in Seen',
         committed' = committed \/ committed' = position
  PROVE  FeedInv'
<1>1. FeedTypeOK
  BY DEF FeedInv
<1>2. topicEnd \in Nat /\ topicEnd' \in 0 .. MaxAlerts
  BY <1>1, FeedAssumption DEF FeedTypeOK
<1>3. position' \in 0 .. MaxAlerts + 1 /\ committed' \in 0 .. MaxAlerts + 1
      /\ position' <= topicEnd' + 1 /\ committed' <= topicEnd' + 1
  <2>1. PICK t \in 0 .. MaxAlerts : t = topicEnd'
    BY <1>2
  <2>2. PICK p \in 0 .. t + 1 : p = position'
    BY <2>1
  <2>3. PICK c \in 0 .. t + 1 : c = committed'
    BY <2>1
  <2>4. p \in 0 .. MaxAlerts + 1 /\ c \in 0 .. MaxAlerts + 1 /\ p <= t + 1 /\ c <= t + 1
    BY FeedAssumption
  <2> QED
    BY <2>1, <2>2, <2>3, <2>4
<1>4. FeedTypeOK'
  BY <1>1, <1>2, <1>3 DEF FeedTypeOK
<1>5. Seen \subseteq Seen'
  BY DEF Seen
<1>6. \A o \in 1 .. committed' - 1 : o \in Seen'
  BY <1>5 DEF FeedInv
<1>7. InHand' = InHand
  BY DEF InHand
<1> QED
  BY <1>3, <1>4, <1>6, <1>7 DEF FeedInv

LEMMA FeedInitially == FeedInit => FeedInv
<1> SUFFICES ASSUME FeedInit
             PROVE  FeedInv
  OBVIOUS
<1>1. feedQueue = <<>> /\ received = <<>>
  BY DEF FeedInit
<1>2. feedQueue \in Seq(1 .. MaxAlerts) /\ received \in Seq(1 .. MaxAlerts)
      /\ Len(feedQueue) = 0 /\ Len(received) = 0
  BY <1>1, SeqEmpty
<1>3. topicEnd = 0 /\ garbled = {} /\ feedStarts = 0 /\ feedErrors = 0
      /\ position = 0 /\ committed = 0 /\ gone = 0 /\ skipped = {}
  BY DEF FeedInit
<1>4. feedThread = "none" /\ feedStop = FALSE /\ polled = FALSE
  BY DEF FeedInit
<1>5. /\ topicEnd \in 0 .. MaxAlerts /\ garbled \subseteq 1 .. topicEnd
      /\ feedStarts \in 0 .. MaxFeedStarts /\ feedErrors \in 0 .. MaxFeedErrors
      /\ position \in 0 .. MaxAlerts + 1 /\ committed \in 0 .. MaxAlerts + 1
      /\ skipped \subseteq 1 .. MaxAlerts
  BY <1>3, FeedAssumption
<1>6. Len(feedQueue) <= FeedQueueMax /\ gone \in 0 .. Len(received)
  BY <1>2, <1>3, FeedAssumption
<1>7. FeedTypeOK
  BY <1>2, <1>4, <1>5, <1>6 DEF FeedTypeOK, FeedThread
<1>8. InHand = 0 /\ feedThread \notin {"polling", "full"}
  BY <1>4 DEF InHand
<1>9. \A o \in 1 .. 0 - 1 : FALSE
  OBVIOUS
<1>10. \A k \in 1 .. Len(feedQueue) : FALSE
  BY <1>2
<1> QED
  BY <1>2, <1>3, <1>7, <1>8, <1>9, <1>10 DEF FeedInv

LEMMA FeedFacts ==
  ASSUME FeedInv
  PROVE  /\ topicEnd \in 0 .. MaxAlerts /\ garbled \subseteq 1 .. topicEnd
         /\ feedThread \in FeedThread /\ feedStop \in BOOLEAN /\ polled \in BOOLEAN
         /\ feedStarts \in 0 .. MaxFeedStarts /\ feedErrors \in 0 .. MaxFeedErrors
         /\ position \in 0 .. topicEnd + 1 /\ committed \in 0 .. topicEnd + 1
         /\ skipped \subseteq 1 .. MaxAlerts
         /\ topicEnd \in topicEnd .. MaxAlerts
         /\ \A o \in 1 .. position - 1 : o \in Seen
         /\ \A o \in 1 .. committed - 1 : o \in Seen
<1>1. FeedTypeOK
  BY DEF FeedInv
<1>2. topicEnd \in 0 .. MaxAlerts /\ position \in Nat /\ committed \in Nat
  BY <1>1, FeedAssumption DEF FeedTypeOK
<1>3. position <= topicEnd + 1 /\ committed <= topicEnd + 1
  BY DEF FeedInv
<1>4. position \in 0 .. topicEnd + 1 /\ committed \in 0 .. topicEnd + 1
      /\ topicEnd \in topicEnd .. MaxAlerts
  BY <1>2, <1>3, FeedAssumption
<1> QED
  BY <1>1, <1>4 DEF FeedInv, FeedTypeOK

\* Steps that leave the group's offsets alone.
LEMMA FeedQuiet ==
  ASSUME FeedInv,
         \/ ProduceAlert \/ StartFeed \/ StopFeed \/ EndFeed \/ PollNone \/ FeedError
         \/ UNCHANGED feedVars
  PROVE  FeedInv'
<1>1. UNCHANGED <<position, polled, committed, skipped, feedQueue, received, gone>>
  BY DEF ProduceAlert, StartFeed, StopFeed, EndFeed, PollNone, FeedError, feedVars, group
<1>2. /\ topicEnd' \in topicEnd .. MaxAlerts /\ garbled \subseteq garbled'
      /\ garbled' \subseteq 1 .. topicEnd'
  <2>1. CASE ProduceAlert
    <3>1. topicEnd' = topicEnd + 1 /\ topicEnd < MaxAlerts
          /\ garbled' \in {garbled, garbled \cup {topicEnd'}}
      BY <2>1 DEF ProduceAlert
    <3>2. topicEnd \in 0 .. MaxAlerts /\ garbled \subseteq 1 .. topicEnd
      BY FeedFacts
    <3> QED
      BY <3>1, <3>2, FeedAssumption
  <2>2. CASE ~ProduceAlert
    <3>1. topicEnd' = topicEnd /\ garbled' = garbled
      BY <2>2 DEF StartFeed, StopFeed, EndFeed, PollNone, FeedError, feedVars, topic
    <3> QED
      BY <3>1, FeedFacts
  <2> QED
    BY <2>1, <2>2
<1>3. /\ feedThread' \in FeedThread /\ (feedThread' = "full" <=> feedThread = "full")
      /\ feedThread' = "polling" => feedThread = "polling"
      /\ feedStop' \in BOOLEAN
  BY FeedFacts DEF ProduceAlert, StartFeed, FeedAlive, StopFeed, EndFeed, PollNone, GoOn, FeedError,
                   FeedThread, feedVars, calls
<1>4. feedStarts' \in 0 .. MaxFeedStarts /\ feedErrors' \in 0 .. MaxFeedErrors
  <2>1. /\ feedStarts' = feedStarts \/ (feedStarts' = feedStarts + 1 /\ feedStarts < MaxFeedStarts)
        /\ feedErrors' = feedErrors \/ (feedErrors' = feedErrors + 1 /\ feedErrors < MaxFeedErrors)
    BY DEF ProduceAlert, StartFeed, StopFeed, EndFeed, PollNone, FeedError, feedVars, calls
  <2>2. feedStarts \in 0 .. MaxFeedStarts /\ feedErrors \in 0 .. MaxFeedErrors
    BY FeedFacts
  <2> QED
    BY <2>1, <2>2, FeedAssumption
<1>5. position' \in 0 .. topicEnd' + 1 /\ committed' \in 0 .. topicEnd' + 1
  <2>1. position \in 0 .. topicEnd + 1 /\ committed \in 0 .. topicEnd + 1
    BY FeedFacts
  <2>2. PICK t \in Nat : t = topicEnd
    BY FeedFacts, FeedAssumption
  <2>3. PICK u \in t .. MaxAlerts : u = topicEnd'
    BY <1>2, <2>2
  <2>4. PICK p \in 0 .. t + 1 : p = position
    BY <2>1, <2>2
  <2>5. PICK c \in 0 .. t + 1 : c = committed
    BY <2>1, <2>2
  <2>6. p \in 0 .. u + 1 /\ c \in 0 .. u + 1
    OBVIOUS
  <2> QED
    BY <1>1, <2>3, <2>4, <2>5, <2>6
<1>6. feedThread' \in {"polling", "full"} => position' > 0
  BY <1>1, <1>3 DEF FeedInv
<1>7. \A o \in 1 .. position' - 1 : o \in Seen'
  BY <1>1, <1>2, FeedFacts DEF Seen
<1>8. polled' \in BOOLEAN /\ skipped' \subseteq 1 .. MaxAlerts
  BY <1>1, FeedFacts
<1> QED
  BY <1>1, <1>2, <1>3, <1>4, <1>5, <1>6, <1>7, <1>8, FeedOther

\* The consumer is made, skips what it cannot read, commits and is closed.
LEMMA GroupStep ==
  ASSUME FeedInv, Subscribe \/ PollGarbled \/ CloseConsumer \/ AutoCommit
  PROVE  FeedInv'
<1>1. UNCHANGED <<topicEnd, garbled, feedStop, feedStarts, feedErrors, feedQueue, received, gone>>
  BY DEF Subscribe, PollGarbled, CloseConsumer, AutoCommit, topic, calls
<1>2. /\ feedThread' \in FeedThread /\ (feedThread' = "full" <=> feedThread = "full")
      /\ polled' \in BOOLEAN
  BY FeedFacts DEF Subscribe, PollGarbled, PollMessage, GoOn, CloseConsumer, AutoCommit, FeedThread
<1>3. committed' = committed \/ committed' = position
  BY DEF Subscribe, PollGarbled, CloseConsumer, AutoCommit
<1>4. /\ topicEnd \in 0 .. MaxAlerts
      /\ position \in 0 .. topicEnd + 1 /\ committed \in 0 .. topicEnd + 1
  BY FeedFacts
<1>5. /\ position' \in 0 .. topicEnd + 1
      /\ feedThread' \in {"polling", "full"} => position' > 0
      /\ skipped \subseteq skipped' /\ skipped' \subseteq 1 .. MaxAlerts
      /\ \A o \in 1 .. position' - 1 : o \in Seen'
  <2>1. CASE Subscribe /\ committed > 0
    <3>1. position' = committed /\ skipped' = skipped
      BY <2>1 DEF Subscribe
    <3>2. \A o \in 1 .. position' - 1 : o \in Seen'
      BY <1>1, <3>1, FeedFacts DEF Seen
    <3> QED
      BY <1>4, <2>1, <3>1, <3>2, FeedFacts
  <2>2. CASE Subscribe /\ ~(committed > 0)
    <3>1. position' = topicEnd + 1 /\ skipped' = skipped \cup 1 .. topicEnd
      BY <2>2 DEF Subscribe
    <3>2. \A o \in 1 .. position' - 1 : o \in skipped'
      BY <1>4, <3>1
    <3>3. position' \in 0 .. topicEnd + 1 /\ position' > 0
      BY <1>4, <3>1
    <3>4. skipped' \subseteq 1 .. MaxAlerts
      <4>1. 1 .. topicEnd \subseteq 1 .. MaxAlerts
        BY <1>4, FeedAssumption
      <4> QED
        BY <3>1, <4>1, FeedFacts
    <3> QED
      BY <3>1, <3>2, <3>3, <3>4 DEF Seen
  <2>3. CASE PollGarbled
    <3>1. position' = position + 1 /\ position <= topicEnd /\ skipped' = skipped
          /\ position \in garbled
      BY <2>3 DEF PollGarbled, PollMessage
    <3>2. position' \in 0 .. topicEnd + 1 /\ position' > 0
      BY <1>4, <3>1
    <3>3. ASSUME NEW o \in 1 .. position' - 1
          PROVE  o \in Seen'
      <4>1. o \in 1 .. position - 1 \/ o = position
        BY <1>4, <3>1
      <4> QED
        BY <1>1, <3>1, <4>1, FeedFacts DEF Seen
    <3> QED
      BY <3>1, <3>2, <3>3, FeedFacts
  <2>4. CASE CloseConsumer \/ AutoCommit
    <3>1. position' = position /\ skipped' = skipped
      BY <2>4 DEF CloseConsumer, AutoCommit
    <3>2. feedThread' \in {"polling", "full"} => feedThread \in {"polling", "full"}
      BY <2>4 DEF CloseConsumer, AutoCommit
    <3>3. \A o \in 1 .. position' - 1 : o \in Seen'
      BY <1>1, <3>1, FeedFacts DEF Seen
    <3> QED
      BY <1>4, <3>1, <3>2, <3>3, FeedFacts DEF FeedInv
  <2> QED
    BY <2>1, <2>2, <2>3, <2>4
<1>6. committed' \in 0 .. topicEnd + 1
  BY <1>3, <1>4
<1>7. /\ topicEnd' \in topicEnd .. MaxAlerts /\ garbled' \subseteq 1 .. topicEnd'
      /\ feedStop' \in BOOLEAN
      /\ feedStarts' \in 0 .. MaxFeedStarts /\ feedErrors' \in 0 .. MaxFeedErrors
  BY <1>1, FeedFacts
<1> QED
  BY <1>1, <1>2, <1>3, <1>5, <1>6, <1>7, FeedOther

\* An alert arrives, and goes into the queue or into the hand of the thread.
LEMMA AlertStep ==
  ASSUME FeedInv, PollAlert \/ PollAlertFull
  PROVE  FeedInv'
<1>1. /\ UNCHANGED <<topicEnd, garbled, feedStop, feedStarts, feedErrors, committed, skipped, gone>>
      /\ feedThread = "polling" /\ position <= topicEnd
      /\ position' = position + 1 /\ polled' = TRUE
      /\ received' = Append(received, position)
  BY DEF PollAlert, PollAlertFull, PollMessage, topic, calls
<1>2. PICK P \in 1 .. MaxAlerts : P = position
  <2>1. position > 0 /\ topicEnd \in 0 .. MaxAlerts /\ position \in 0 .. topicEnd + 1
    BY <1>1, FeedFacts DEF FeedInv
  <2> QED
    BY <1>1, <2>1, FeedAssumption
<1>3. feedQueue \in Seq(1 .. MaxAlerts) /\ received \in Seq(1 .. MaxAlerts)
      /\ Len(feedQueue) <= FeedQueueMax
  BY DEF FeedInv, FeedTypeOK
<1>4. PICK R \in Nat, Q \in Nat, G \in Nat :
        R = Len(received) /\ Q = Len(feedQueue) /\ G = gone
  BY <1>3, SeqFacts DEF FeedInv, FeedTypeOK
<1>5. R = G + Q
  <2>1. InHand = 0
    BY <1>1 DEF InHand
  <2> QED
    BY <1>4, <2>1 DEF FeedInv
<1>6. /\ received' \in Seq(1 .. MaxAlerts) /\ Len(received') = R + 1
      /\ \A i \in 1 .. R : received'[i] = received[i]
      /\ received'[R + 1] = P
  BY <1>1, <1>2, <1>3, <1>4, SeqAppended
<1>7. /\ feedQueue' \in Seq(1 .. MaxAlerts) /\ Len(feedQueue') <= FeedQueueMax
      /\ R + 1 = G + Len(feedQueue') + InHand'
      /\ \A k \in 1 .. Len(feedQueue') : feedQueue'[k] = received'[G + k]
      /\ feedThread' \in FeedThread
  <2>1. CASE PollAlert
    <3>1. feedQueue' = Append(feedQueue, P) /\ Q < FeedQueueMax
      BY <1>2, <1>4, <2>1 DEF PollAlert
    <3>2. /\ feedQueue' \in Seq(1 .. MaxAlerts) /\ Len(feedQueue') = Q + 1
          /\ \A i \in 1 .. Q : feedQueue'[i] = feedQueue[i]
          /\ feedQueue'[Q + 1] = P
      BY <1>3, <1>4, <3>1, SeqAppended
    <3>3. feedThread' \in {"polling", "closing"}
      BY <2>1 DEF PollAlert, GoOn
    <3>4. InHand' = 0 /\ feedThread' \in FeedThread
      BY <3>3 DEF InHand, FeedThread
    <3>5. ASSUME NEW k \in 1 .. Q + 1
          PROVE  feedQueue'[k] = received'[G + k]
      <4>1. CASE k = Q + 1
        BY <1>5, <1>6, <3>2, <4>1
      <4>2. CASE k # Q + 1
        <5>1. k \in 1 .. Q /\ G + k \in 1 .. R
          BY <1>5, <4>2
        <5>2. feedQueue[k] = received[G + k]
          BY <1>4, <5>1 DEF FeedInv
        <5> QED
          BY <1>6, <3>2, <5>1, <5>2
      <4> QED
        BY <4>1, <4>2
    <3>6. Len(feedQueue') <= FeedQueueMax
      BY <3>1, <3>2, FeedAssumption
    <3> QED
      BY <1>5, <3>2, <3>4, <3>5, <3>6
  <2>2. CASE PollAlertFull
    <3>1. feedQueue' = feedQueue /\ feedThread' = "full"
      BY <2>2 DEF PollAlertFull
    <3>2. InHand' = 1 /\ feedThread' \in FeedThread
      BY <3>1 DEF InHand, FeedThread
    <3>3. ASSUME NEW k \in 1 .. Q
          PROVE  feedQueue'[k] = received'[G + k]
      <4>1. G + k \in 1 .. R
        BY <1>5
      <4>2. feedQueue[k] = received[G + k]
        BY <1>4 DEF FeedInv
      <4> QED
        BY <1>6, <3>1, <4>1, <4>2
    <3>4. feedQueue' \in Seq(1 .. MaxAlerts) /\ Len(feedQueue') = Q
          /\ Len(feedQueue') <= FeedQueueMax
      BY <1>3, <1>4, <3>1
    <3> QED
      BY <1>5, <3>2, <3>3, <3>4
  <2> QED
    BY <2>1, <2>2
<1>8. Seen \subseteq Seen' /\ P \in Seen'
  <2>1. ToSet(received) \subseteq ToSet(received') /\ P \in ToSet(received')
    BY <1>1, <1>2, <1>3, SeqToSet
  <2> QED
    BY <1>1, <2>1 DEF Seen
<1>9. ASSUME NEW o \in 1 .. position' - 1
      PROVE  o \in Seen'
  <2>1. o \in 1 .. position - 1 \/ o = P
    BY <1>1, <1>2
  <2> QED
    BY <1>8, <2>1, FeedFacts
<1>10. \A o \in 1 .. committed' - 1 : o \in Seen'
  BY <1>1, <1>8, FeedFacts
<1>11. position' \in 0 .. MaxAlerts + 1 /\ position' <= topicEnd' + 1 /\ position' > 0
  <2>1. topicEnd \in 0 .. MaxAlerts
    BY FeedFacts
  <2> QED
    BY <1>1, <1>2, <2>1, FeedAssumption
<1>12. gone' \in 0 .. Len(received')
  <2>1. G \in 0 .. R + 1
    BY <1>5
  <2> QED
    BY <1>1, <1>4, <1>6, <2>1
<1>13. FeedTypeOK'
  BY <1>1, <1>6, <1>7, <1>11, <1>12 DEF FeedInv, FeedTypeOK
<1>14. committed' <= topicEnd' + 1
  BY <1>1 DEF FeedInv
<1> QED
  BY <1>1, <1>4, <1>6, <1>7, <1>9, <1>10, <1>11, <1>13, <1>14 DEF FeedInv

\* The oldest alert leaves the queue, and the one in hand may take its place.
LEMMA QueueMoves ==
  ASSUME FeedInv,
         UNCHANGED <<topicEnd, garbled, feedStop, feedStarts, feedErrors, position, polled,
                     committed, skipped, received>>,
         feedThread' \in FeedThread,
         feedThread' \in {"polling", "full"} => feedThread \in {"polling", "full"},
         NEW left \in 0 .. 1, left <= Len(feedQueue), gone' = gone + left,
         NEW put \in 0 .. 1, InHand' = InHand - put,
         feedQueue' \in Seq(1 .. MaxAlerts), Len(feedQueue') <= FeedQueueMax,
         Len(feedQueue') = Len(feedQueue) - left + put,
         \A k \in 1 .. Len(feedQueue) - left : feedQueue'[k] = feedQueue[k + left],
         put = 1 => feedQueue'[Len(feedQueue')] = received[Len(received)]
  PROVE  FeedInv'
<1>1. feedQueue \in Seq(1 .. MaxAlerts) /\ received \in Seq(1 .. MaxAlerts)
  BY DEF FeedInv, FeedTypeOK
<1>2. PICK R \in Nat, Q \in Nat, G \in Nat :
        R = Len(received) /\ Q = Len(feedQueue) /\ G = gone
  BY <1>1, SeqFacts DEF FeedInv, FeedTypeOK
<1>3. PICK h \in 0 .. 1 : h = InHand
  BY DEF InHand
<1>4. R = G + Q + h
  BY <1>2, <1>3 DEF FeedInv
<1>5. InHand' = h - put /\ h - put \in {0, 1}
  <2>1. InHand' \in {0, 1}
    BY DEF InHand
  <2> QED
    BY <1>3, <2>1
<1>6. gone' = G + left /\ G + left \in 0 .. R /\ Len(feedQueue') = Q - left + put
  BY <1>2, <1>4
<1>7. R = gone' + Len(feedQueue') + InHand'
  <2>1. R = (G + left) + (Q - left + put) + (h - put)
    BY <1>4
  <2> QED
    BY <1>5, <1>6, <2>1
<1>8. ASSUME NEW k \in 1 .. Len(feedQueue')
      PROVE  feedQueue'[k] = received[G + left + k]
  <2>1. CASE k \in 1 .. Q - left
    <3>1. k + left \in 1 .. Q /\ G + (k + left) = G + left + k
      BY <2>1
    <3>2. feedQueue[k + left] = received[G + (k + left)]
      BY <1>2, <3>1 DEF FeedInv
    <3> QED
      BY <1>2, <2>1, <3>1, <3>2
  <2>2. CASE k \notin 1 .. Q - left
    <3>1. put = 1 /\ k = Q - left + put
      BY <1>2, <1>6, <2>2
    <3>2. G + left + k = R
      BY <1>4, <1>5, <3>1
    <3> QED
      BY <1>2, <1>6, <3>1, <3>2
  <2> QED
    BY <2>1, <2>2
<1>9. FeedTypeOK'
  BY <1>2, <1>6 DEF FeedInv, FeedTypeOK
<1>10. Seen' = Seen
  BY DEF Seen
<1> QED
  BY <1>2, <1>6, <1>7, <1>8, <1>9, <1>10 DEF FeedInv

LEMMA DropStep ==
  ASSUME FeedInv, DropOldest
  PROVE  FeedInv'
<1>1. UNCHANGED <<topicEnd, garbled, feedStop, feedStarts, feedErrors, position, polled,
                  committed, skipped, received>>
  BY DEF DropOldest, topic, calls, group
<1>2. feedThread = "full" /\ feedThread' \in {"polling", "closing"}
  BY DEF DropOldest, GoOn
<1>3. InHand = 1 /\ InHand' = 0 /\ feedThread' \in FeedThread
  BY <1>2 DEF InHand, FeedThread
<1>4. PICK one \in 0 .. 1 : one = 1
  OBVIOUS
<1>5. InHand' = InHand - one
  BY <1>3, <1>4
<1>6. feedQueue \in Seq(1 .. MaxAlerts) /\ received \in Seq(1 .. MaxAlerts)
      /\ Len(feedQueue) <= FeedQueueMax /\ Len(feedQueue) \in Nat /\ Len(received) \in Nat
  BY SeqFacts DEF FeedInv, FeedTypeOK
<1>7. Last(received) = received[Len(received)] /\ Last(received) \in 1 .. MaxAlerts
  <2>1. gone \in Nat /\ Len(received) = gone + Len(feedQueue) + 1
    BY <1>3, <1>6 DEF FeedInv, FeedTypeOK
  <2>2. Len(received) > 0
    BY <1>6, <2>1
  <2> QED
    BY <1>6, <2>2, SeqLast
<1>8. CASE feedQueue = <<>>
  <2>1. feedQueue' = Append(<<>>, Last(received)) /\ gone' = gone
    BY <1>8 DEF DropOldest
  <2>2. /\ feedQueue' \in Seq(1 .. MaxAlerts) /\ Len(feedQueue') = 1
        /\ feedQueue'[1] = Last(received)
    BY <1>7, <2>1
  <2>3. Len(feedQueue) = 0
    BY <1>8
  <2>4. PICK none \in 0 .. 1 : none = 0
    OBVIOUS
  <2>5. /\ none <= Len(feedQueue) /\ gone' = gone + none
        /\ Len(feedQueue') <= FeedQueueMax
        /\ Len(feedQueue') = Len(feedQueue) - none + one
    BY <1>4, <2>1, <2>2, <2>3, <2>4, FeedAssumption DEF FeedInv, FeedTypeOK
  <2>6. \A k \in 1 .. Len(feedQueue) - none : feedQueue'[k] = feedQueue[k + none]
    BY <2>3, <2>4
  <2>7. feedQueue'[Len(feedQueue')] = received[Len(received)]
    BY <1>7, <2>2
  <2> QED
    BY <1>1, <1>2, <1>3, <1>5, <2>2, <2>5, <2>6, <2>7, QueueMoves
<1>9. CASE feedQueue # <<>>
  <2>1. feedQueue' = Append(Tail(feedQueue), Last(received)) /\ gone' = gone + 1
    BY <1>9 DEF DropOldest
  <2>2. /\ Len(feedQueue) > 0
        /\ Tail(feedQueue) \in Seq(1 .. MaxAlerts) /\ Len(Tail(feedQueue)) = Len(feedQueue) - 1
        /\ \A k \in 1 .. Len(feedQueue) - 1 : Tail(feedQueue)[k] = feedQueue[k + 1]
    BY <1>6, <1>9, SeqTail
  <2>3. /\ feedQueue' \in Seq(1 .. MaxAlerts) /\ Len(feedQueue') = Len(feedQueue) - 1 + 1
        /\ \A k \in 1 .. Len(feedQueue) - 1 : feedQueue'[k] = Tail(feedQueue)[k]
        /\ feedQueue'[Len(feedQueue) - 1 + 1] = Last(received)
    BY <1>7, <2>1, <2>2, SeqAppended
  <2>4. /\ one <= Len(feedQueue) /\ gone' = gone + one
        /\ Len(feedQueue') <= FeedQueueMax
        /\ Len(feedQueue') = Len(feedQueue) - one + one
    BY <1>4, <1>6, <2>1, <2>2, <2>3
  <2>5. \A k \in 1 .. Len(feedQueue) - one : feedQueue'[k] = feedQueue[k + one]
    BY <1>4, <2>2, <2>3
  <2>6. feedQueue'[Len(feedQueue')] = received[Len(received)]
    BY <1>7, <2>3
  <2> QED
    BY <1>1, <1>2, <1>3, <1>5, <2>3, <2>4, <2>5, <2>6, QueueMoves
<1> QED
  BY <1>8, <1>9

LEMMA DrainStep ==
  ASSUME FeedInv, DrainOne
  PROVE  FeedInv'
<1>1. /\ UNCHANGED <<topicEnd, garbled, feedStop, feedStarts, feedErrors, position, polled,
                     committed, skipped, received>>
      /\ feedThread' = feedThread
  BY DEF DrainOne, topic, calls, group
<1>2. feedQueue # <<>> /\ feedQueue' = Tail(feedQueue) /\ gone' = gone + 1
  BY DEF DrainOne
<1>3. feedQueue \in Seq(1 .. MaxAlerts) /\ Len(feedQueue) <= FeedQueueMax /\ Len(feedQueue) \in Nat
      /\ feedThread \in FeedThread
  BY SeqFacts DEF FeedInv, FeedTypeOK
<1>4. /\ Len(feedQueue) > 0
      /\ feedQueue' \in Seq(1 .. MaxAlerts) /\ Len(feedQueue') = Len(feedQueue) - 1
      /\ \A k \in 1 .. Len(feedQueue) - 1 : feedQueue'[k] = feedQueue[k + 1]
  BY <1>2, <1>3, SeqTail
<1>5. PICK one \in 0 .. 1, none \in 0 .. 1 : one = 1 /\ none = 0
  OBVIOUS
<1>6. InHand' = InHand - none
  BY <1>1, <1>5 DEF InHand
<1>7. /\ one <= Len(feedQueue) /\ gone' = gone + one
      /\ Len(feedQueue') <= FeedQueueMax
      /\ Len(feedQueue') = Len(feedQueue) - one + none
  BY <1>2, <1>3, <1>4, <1>5, FeedAssumption
<1>8. \A k \in 1 .. Len(feedQueue) - one : feedQueue'[k] = feedQueue[k + one]
  BY <1>4, <1>5
<1>9. none # 1 /\ feedThread' \in FeedThread
  BY <1>1, <1>3, <1>5
<1>10. feedThread' \in {"polling", "full"} => feedThread \in {"polling", "full"}
  BY <1>1
<1> QED
  BY <1>1, <1>4, <1>6, <1>7, <1>8, <1>9, <1>10, QueueMoves

LEMMA FeedStep ==
  ASSUME FeedInv, [FeedNext]_feedVars
  PROVE  FeedInv'
<1>1. CASE \/ ProduceAlert \/ StartFeed \/ StopFeed \/ EndFeed \/ PollNone \/ FeedError
           \/ UNCHANGED feedVars
  BY <1>1, FeedQuiet
<1>2. CASE Subscribe \/ PollGarbled \/ CloseConsumer \/ AutoCommit
  BY <1>2, GroupStep
<1>3. CASE PollAlert \/ PollAlertFull
  BY <1>3, AlertStep
<1>4. CASE DropOldest
  BY <1>4, DropStep
<1>5. CASE DrainOne
  BY <1>5, DrainStep
<1> QED
  BY <1>1, <1>2, <1>3, <1>4, <1>5 DEF FeedNext, FeedThreadStep

\* The rest of a sequence.
LEMMA SeqRest ==
  ASSUME NEW S, NEW s \in Seq(S), NEW m \in 0 .. Len(s)
  PROVE  /\ SubSeq(s, m + 1, Len(s)) \in Seq(S)
         /\ Len(SubSeq(s, m + 1, Len(s))) = Len(s) - m
         /\ \A k \in 1 .. Len(s) - m : SubSeq(s, m + 1, Len(s))[k] = s[m + k]
OBVIOUS

LEMMA SeqEqual ==
  ASSUME NEW S, NEW s \in Seq(S), NEW t \in Seq(S), Len(s) = Len(t),
         \A k \in 1 .. Len(s) : s[k] = t[k]
  PROVE  s = t
OBVIOUS

LEMMA SeqJoined ==
  ASSUME NEW S, NEW s \in Seq(S), NEW v \in S
  PROVE  s \o <<v>> = Append(s, v) /\ s \o <<>> = s
OBVIOUS

LEMMA FeedMeans == FeedInv => FeedKeepsNewest
<1> SUFFICES ASSUME FeedInv
             PROVE  FeedKeepsNewest
  OBVIOUS
<1>1. feedQueue \in Seq(1 .. MaxAlerts) /\ received \in Seq(1 .. MaxAlerts)
      /\ gone \in 0 .. Len(received) /\ Len(feedQueue) \in Nat /\ Len(received) \in Nat
  BY SeqFacts DEF FeedInv, FeedTypeOK
<1> DEFINE rest == SubSeq(received, gone + 1, Len(received))
<1>2. /\ rest \in Seq(1 .. MaxAlerts) /\ Len(rest) = Len(received) - gone
      /\ \A k \in 1 .. Len(received) - gone : rest[k] = received[gone + k]
  BY <1>1, SeqRest
<1> HIDE DEF rest
<1>3. CASE feedThread = "full"
  <2>1. Len(received) = gone + Len(feedQueue) + 1
    BY <1>3 DEF FeedInv, InHand
  <2>2. Last(received) = received[Len(received)] /\ Last(received) \in 1 .. MaxAlerts
    <3>1. Len(received) > 0
      BY <1>1, <2>1
    <3> QED
      BY <1>1, <3>1, SeqLast
  <2>3. PICK q \in Seq(1 .. MaxAlerts) : q = Append(feedQueue, Last(received))
    BY <1>1, <2>2, SeqAppended
  <2>4. /\ Len(q) = Len(feedQueue) + 1
        /\ \A k \in 1 .. Len(feedQueue) : q[k] = feedQueue[k]
        /\ q[Len(feedQueue) + 1] = Last(received)
    BY <1>1, <2>2, <2>3, SeqAppended
  <2>5. Len(rest) = Len(q)
    BY <1>1, <1>2, <2>1, <2>4
  <2>6. ASSUME NEW k \in 1 .. Len(q)
        PROVE  q[k] = rest[k]
    <3>1. k \in 1 .. Len(received) - gone
      BY <1>1, <2>1, <2>4
    <3>2. CASE k = Len(feedQueue) + 1
      <4>1. gone + k = Len(received)
        BY <1>1, <2>1, <3>2
      <4> QED
        BY <1>2, <2>2, <2>4, <3>1, <3>2, <4>1
    <3>3. CASE k # Len(feedQueue) + 1
      <4>1. k \in 1 .. Len(feedQueue)
        BY <1>1, <2>4, <3>3
      <4> QED
        BY <1>2, <2>4, <3>1, <4>1 DEF FeedInv
    <3> QED
      BY <3>2, <3>3
  <2>7. q = rest
    BY <1>2, <2>5, <2>6, SeqEqual
  <2>8. feedQueue \o <<Last(received)>> = rest
    BY <1>1, <2>2, <2>3, <2>7, SeqJoined
  <2> QED
    BY <1>3, <2>8 DEF FeedInv, Seen, FeedKeepsNewest, rest
<1>4. CASE feedThread # "full"
  <2>1. Len(received) = gone + Len(feedQueue)
    <3>1. InHand = 0
      BY <1>4 DEF InHand
    <3>2. gone + Len(feedQueue) + 0 = gone + Len(feedQueue)
      BY <1>1
    <3> QED
      BY <3>1, <3>2 DEF FeedInv
  <2>2. Len(feedQueue) = Len(rest)
    BY <1>1, <1>2, <2>1
  <2>3. ASSUME NEW k \in 1 .. Len(feedQueue)
        PROVE  feedQueue[k] = rest[k]
    <3>1. k \in 1 .. Len(received) - gone
      BY <1>1, <2>1
    <3> QED
      BY <1>2, <3>1 DEF FeedInv
  <2>4. feedQueue = rest
    BY <1>1, <1>2, <2>2, <2>3, SeqEqual
  <2>5. feedQueue \o <<>> = rest
    BY <1>1, <2>4
  <2> QED
    BY <1>4, <2>5 DEF FeedInv, Seen, FeedKeepsNewest, rest
<1> QED
  BY <1>3, <1>4

-----------------------------------------------------------------------------
\* Healthy means that somebody reads each topic, and nobody twice but for threads
\* that stop() has forgotten, for every number of starts and stops
\* (kafka_metrics_bridge.py 201-256).
THEOREM BridgeReadsOnce == ServicesSpec => []OneReaderPerTopic
<1>1. ServicesInit => BridgeInv
  BY BridgeInitially DEF ServicesInit
<1>2. BridgeInv /\ [ServicesNext]_allVars => BridgeInv'
  BY StepOfOne, BridgeStep
<1> QED
  BY <1>1, <1>2, BridgeMeans, PTL DEF ServicesSpec

\* What the API answered stays true: a refused transaction is not in the topic, an
\* accepted one is accounted for, through restarts, for every number of requests
\* (producer.py 236-324, 402-474).
THEOREM ClientsToldTheTruth == ServicesSpec => []AnswersHonest
<1>1. ServicesInit => IngestInv
  BY IngestInitially DEF ServicesInit
<1>2. IngestInv /\ [ServicesNext]_allVars => IngestInv'
  BY StepOfOne, IngestStep
<1> QED
  BY <1>1, <1>2, IngestMeans, PTL DEF ServicesSpec

\* After FailMax failures in a row the model is left alone for ResetTimeout, for
\* every number of callers and calls, whether the callers wait or have given up
\* (circuit_breaker.py 100-109).
THEOREM ModelSpared == ServicesSpec => BreakerSparesModel
<1>1. ServicesInit => ModelInv
  BY ModelInitially DEF ServicesInit
<1>2. ModelInv /\ [ServicesNext]_allVars =>
        ModelInv' /\ [ModelEntered => failedCalls < FailMax \/ sinceFailure >= ResetTimeout]_modelVars
  BY StepOfOne, ModelStep
<1> QED
  BY <1>1, <1>2, PTL DEF ServicesSpec, BreakerSparesModel

\* Nor does a call reach it before the time of the next probe that a client of the
\* API was told, however reads and changes of the breaker interleave
\* (management_api.py 528-563).
THEOREM ProbeTimeKept == ServicesSpec => ProbeTimeHonest
<1>1. ServicesInit => ModelInv
  BY ModelInitially DEF ServicesInit
<1>2. ModelInv /\ [ServicesNext]_allVars => ModelInv' /\ [ModelEntered => promised = 0]_modelVars
  BY StepOfOne, ModelStep
<1> QED
  BY <1>1, <1>2, PTL DEF ServicesSpec, ProbeTimeHonest

\* A vector is complete and no older than the request it answers, for every number
\* of callers, accounts, lookups and batches (feature_serving.py 97-139).
THEOREM VectorsAreCurrent == ServicesSpec => []FeaturesCurrent
<1>1. ServicesInit => ServingInv
  BY ServingInitially DEF ServicesInit
<1>2. ServingInv /\ [ServicesNext]_allVars => ServingInv'
  BY StepOfOne, ServingStep
<1> QED
  BY <1>1, <1>2, ServingMeans, PTL DEF ServicesSpec

\* The queue keeps the latest alerts in order and the group misses none that it did
\* not jump over, for every size of the queue and every number of alerts, errors
\* and starts (kafka_consumer.py 174-222).
THEOREM FeedIsComplete == ServicesSpec => []FeedKeepsNewest
<1>1. ServicesInit => FeedInv
  BY FeedInitially DEF ServicesInit
<1>2. FeedInv /\ [ServicesNext]_allVars => FeedInv'
  BY StepOfOne, FeedStep
<1> QED
  BY <1>1, <1>2, FeedMeans, PTL DEF ServicesSpec

\* Each service keeps its types, and the feed its bound, for every value of the
\* constants.
THEOREM ServicesTypeCorrect == ServicesSpec => []ServicesTypeOK
<1> DEFINE AllInv == /\ focus \in Service
                     /\ ModelInv /\ PoolInv /\ ServingInv /\ FeedInv /\ BridgeInv /\ IngestInv
                     /\ ReplayTypeOK
<1>1. ServicesInit => AllInv
  BY ModelInitially, PoolInitially, ServingInitially, FeedInitially, BridgeInitially,
     IngestInitially, Initially DEF ServicesInit, IInv
<1>2. AllInv /\ [ServicesNext]_allVars => AllInv'
  BY StepOfOne, ModelStep, PoolStep, ServingStep, FeedStep, BridgeStep, IngestStep, TypeStep
<1>3. AllInv => ServicesTypeOK
  BY DEF ServicesTypeOK, ModelTypeOK, ModelInv, PoolInv, ServingInv, FeedInv, BridgeInv, IngestInv
<1> QED
  BY <1>1, <1>2, <1>3, PTL DEF ServicesSpec
===============================================================================

---------------------------- MODULE JobStreamProofs ----------------------------
(***************************************************************************)
(* Theorems about JobStream, for any viewers, any number of lines and      *)
(* whoever hangs up when.                                                  *)
(*                                                                         *)
(* JobInv ties the row, and the end that the mirror task was given, to     *)
(* where _run_job is.  StreamInv says of every client that listens that    *)
(* what it has been sent, followed by what its queue holds, is the history *)
(* it was given, the news of how the job began, the lines that were        *)
(* mirrored since, and the ending if there is one; of a client whose       *)
(* handler is over, that it was sent all of that up to the outcome.  It is *)
(* inductive because nothing is published after an ending.                 *)
(***************************************************************************)
EXTENDS JobStream, SequenceTheorems, TLAPS

Begun == {"running", "draining", "leaking", "over"}

JobInv ==
  /\ run = "no" => row \in {"none", "queued", "cancelled"}
  /\ run = "opening" => row = "starting"
  /\ run = "raised" => row = "failed"
  /\ run \in {"running", "draining", "leaking"} => row = "running"
  /\ run \in {"draining", "leaking", "over"} => mirrored <= eof
  /\ run = "draining" => eof = lines
  /\ run = "leaking" => code = -1
  /\ run = "over" => row = Outcome[1] /\ mirrored = eof /\ (eof < lines => code = -1)
  /\ run \notin Begun => lines = 0

(* What the job has published last: nothing, as long as more may follow.   *)
Over   == run = "over" \/ row = "cancelled"
Verdict == IF run = "over" THEN Outcome ELSE <<"cancelled", 0>>

(* What a client is told of how the job begins: the submit first that it   *)
(* waits; then what was evicted and that it runs, to whom that is news.    *)
Hello(f) == IF f = "submit" THEN <<Waiting>> ELSE <<>>
Runs(f) ==
  IF f = "submit" THEN {<<Waiting, Running>>, <<Waiting, Evicted, Running>>}
  ELSE {<<Running>>, <<Evicted, Running>>}
News(f) ==
  Runs(f) \cup (IF f = "submit" THEN {<<Waiting>>, <<Waiting, Evicted>>}
                ELSE {<<>>, <<Evicted>>})

(* What a client has been sent of the job while it went on.  The submit    *)
(* has no history; its viewers are told that it runs if they came before.  *)
Passage(first, last, begin, live) == Lines(first, last) \o begin \o Lines(live, mirrored)

Fits(f, first, last, begin, live) ==
  /\ first \in 0..lines /\ last \in 0..lines /\ live \in 0..mirrored
  /\ first <= last /\ live <= last
  /\ first = 0 \/ (f \notin FromStart /\ last = first + TailLines)
  /\ begin \in News(f)
  /\ begin # Hello(f) => last = 0 /\ run \notin {"no", "opening"}
  /\ run \in Begun => begin \in Runs(f) \/ (begin = Hello(f) /\ f # "submit")
  /\ f = "submit" => last = 0

(* The events that neither tell an outcome nor close a stream.             *)
Plain == {"queued", "ollama", "line", "running"} \X Int

Sent(f) == got[f] \o inbox[f]

Listens(f) ==
  /\ f \in subscribed
  /\ got[f] \in Seq(Plain)
  /\ \E first, last, live \in 0..lines, begin \in News(f) :
       /\ Fits(f, first, last, begin, live)
       /\ \/ Sent(f) = Passage(first, last, begin, live) /\ (f = "submit" => ~Over)
          \/ Over /\ Sent(f) = Passage(first, last, begin, live) \o <<Verdict, Close>>

WasTold(f) ==
  /\ Over
  /\ \E first, last, live \in 0..lines, begin \in News(f) :
       /\ Fits(f, first, last, begin, live)
       /\ got[f] = Passage(first, last, begin, live) \o <<Verdict>>

StreamInv(f) ==
  /\ conn[f] = "none" => f \notin subscribed /\ got[f] = <<>> /\ inbox[f] = <<>> /\ f \notin gone
  /\ row = "none" => conn[f] = "none"
  /\ f \in gone => got[f] = <<>>
  /\ f \notin gone /\ conn[f] \in {"history", "streaming"} => Listens(f)
  /\ f \notin gone /\ conn[f] = "closed" =>
       WasTold(f) \/ (f = "submit" /\ got[f] = <<Waiting>>)

Streams == \A f \in Client : StreamInv(f)

(* The ending of its job is in the queue of every submit that still waits. *)
EndingIsQueued ==
  conn["submit"] = "streaming" /\ "submit" \notin gone /\ Over =>
    \E i \in DOMAIN inbox["submit"] : inbox["submit"][i] = Verdict

-----------------------------------------------------------------------------
(* About sequences of events.                                              *)

LEMMA EventSets ==
  /\ Plain \subseteq Event
  /\ \A ev \in Plain : ~IsTerminal(ev) /\ ev # Close
  /\ Close \in Event /\ {Waiting, Evicted, Running} \subseteq Plain /\ <<>> \in Seq(Plain)
  /\ \A n \in Nat : Line(n) \in Plain
<1>1. Plain \subseteq Event
  BY DEF Plain, Event
<1>2. \A ev \in Plain : ~IsTerminal(ev) /\ ev # Close
  BY DEF Plain, IsTerminal, Settled, Close
<1>3. /\ Close \in Event /\ {Waiting, Evicted, Running} \subseteq Plain
      /\ \A n \in Nat : Line(n) \in Plain
  BY DEF Close, Event, Plain, Line, Waiting, Evicted, Running
<1> QED
  BY <1>1, <1>2, <1>3

LEMMA ShortSequences ==
  ASSUME NEW S, NEW a \in S, NEW b \in S, NEW c \in S
  PROVE  <<a>> \o <<b>> = <<a, b>> /\ <<a>> \o <<b, c>> = <<a, b, c>>
<1>1. <<a>> \in Seq(S) /\ <<b>> \in Seq(S) /\ <<c>> \in Seq(S) /\ <<a, b>> \in Seq(S)
  OBVIOUS
<1>2. \A s \in Seq(S), e \in S : s \o <<e>> = Append(s, e)
  BY AppendIsConcat
<1>3. ASSUME NEW s \in Seq(S), NEW t \in Seq(S), NEW e \in S,
             Len(t) = Len(s) + 1, t[Len(s) + 1] = e, \A i \in 1..Len(s) : t[i] = s[i]
      PROVE  Append(s, e) = t
  <2>1. /\ Append(s, e) \in Seq(S) /\ Len(Append(s, e)) = Len(s) + 1
        /\ Append(s, e)[Len(s) + 1] = e /\ \A i \in 1..Len(s) : Append(s, e)[i] = s[i]
    BY AppendProperties
  <2>2. Len(s) \in Nat
    BY LenProperties
  <2>3. \A i \in 1..Len(Append(s, e)) : Append(s, e)[i] = t[i]
    BY <1>3, <2>1, <2>2
  <2> QED
    BY <1>3, <2>1, <2>3, SeqEqual
<1>4. \A d, e \in S : Append(<<d>>, e) = <<d, e>>
  <2> TAKE d, e \in S
  <2>1. <<d>> \in Seq(S) /\ <<d, e>> \in Seq(S)
    OBVIOUS
  <2>2. Len(<<d>>) = 1 /\ Len(<<d, e>>) = 2 /\ <<d, e>>[2] = e
    OBVIOUS
  <2>3. \A i \in 1..1 : <<d, e>>[i] = <<d>>[i]
    OBVIOUS
  <2>4. Len(<<d, e>>) = Len(<<d>>) + 1 /\ <<d, e>>[Len(<<d>>) + 1] = e
        /\ \A i \in 1..Len(<<d>>) : <<d, e>>[i] = <<d>>[i]
    BY <2>2, <2>3
  <2> QED
    BY <1>3, <2>1, <2>4
<1>5. Append(<<a, b>>, c) = <<a, b, c>>
  <2>1. <<a, b>> \in Seq(S) /\ <<a, b, c>> \in Seq(S)
    OBVIOUS
  <2>2. Len(<<a, b>>) = 2 /\ Len(<<a, b, c>>) = 3 /\ <<a, b, c>>[3] = c
    OBVIOUS
  <2>3. \A i \in 1..2 : <<a, b, c>>[i] = <<a, b>>[i]
    OBVIOUS
  <2>4. Len(<<a, b, c>>) = Len(<<a, b>>) + 1 /\ <<a, b, c>>[Len(<<a, b>>) + 1] = c
        /\ \A i \in 1..Len(<<a, b>>) : <<a, b, c>>[i] = <<a, b>>[i]
    BY <2>2, <2>3
  <2> QED
    BY <1>3, <2>1, <2>4
<1>6. <<a>> \o <<b>> = <<a, b>> /\ <<b>> \o <<c>> = <<b, c>> /\ <<a, b>> \o <<c>> = <<a, b, c>>
  BY <1>1, <1>2, <1>4, <1>5
<1>7. <<a>> \o (<<b>> \o <<c>>) = (<<a>> \o <<b>>) \o <<c>>
  BY <1>1, ConcatAssociative
<1> QED
  BY <1>6, <1>7

(* The tidings of a job add up to news.                                    *)
LEMMA NewsAddUp ==
  ASSUME NEW f
  PROVE  /\ Hello(f) \in News(f) /\ Hello(f) \notin Runs(f)
         /\ News(f) \subseteq Seq(Plain) /\ Runs(f) \subseteq News(f)
         /\ Hello(f) \o <<Evicted>> \in News(f)
         /\ \A news \in {<<Running>>, <<Evicted, Running>>} : Hello(f) \o news \in Runs(f)
<1>1. Waiting \in Plain /\ Evicted \in Plain /\ Running \in Plain
  BY EventSets
<1>2. CASE f = "submit"
  <2>1. Hello(f) = <<Waiting>>
    BY <1>2 DEF Hello
  <2>2. News(f) = {<<Waiting, Running>>, <<Waiting, Evicted, Running>>, <<Waiting>>,
                   <<Waiting, Evicted>>}
        /\ Runs(f) = {<<Waiting, Running>>, <<Waiting, Evicted, Running>>}
    BY <1>2 DEF News, Runs
  <2>3. /\ <<Waiting>> \o <<Evicted>> = <<Waiting, Evicted>>
        /\ <<Waiting>> \o <<Running>> = <<Waiting, Running>>
        /\ <<Waiting>> \o <<Evicted, Running>> = <<Waiting, Evicted, Running>>
    BY <1>1, ShortSequences
  <2>4. <<Waiting>> # <<Waiting, Running>> /\ <<Waiting>> # <<Waiting, Evicted, Running>>
    OBVIOUS
  <2> QED
    BY <1>1, <2>1, <2>2, <2>3, <2>4
<1>3. CASE f # "submit"
  <2>1. Hello(f) = <<>>
    BY <1>3 DEF Hello
  <2>2. News(f) = {<<Running>>, <<Evicted, Running>>, <<>>, <<Evicted>>}
        /\ Runs(f) = {<<Running>>, <<Evicted, Running>>}
    BY <1>3 DEF News, Runs
  <2>3. /\ <<>> \o <<Evicted>> = <<Evicted>> /\ <<>> \o <<Running>> = <<Running>>
        /\ <<>> \o <<Evicted, Running>> = <<Evicted, Running>>
    OBVIOUS
  <2>4. <<>> # <<Running>> /\ <<>> # <<Evicted, Running>>
    OBVIOUS
  <2> QED
    BY <1>1, <2>1, <2>2, <2>3, <2>4
<1> QED
  BY <1>2, <1>3

(* What Lines lists, and what one more line adds to it.                    *)
LEMMA LinesList ==
  ASSUME NEW m \in Nat, NEW n \in Nat, m <= n
  PROVE  /\ Lines(m, n) \in Seq(Plain)
         /\ Len(Lines(m, n)) = n - m
         /\ \A i \in 1..(n - m) : Lines(m, n)[i] = Line(m + i)
<1>1. n - m \in Nat
  OBVIOUS
<1>2. \A i \in 1..(n - m) : Line(m + i) \in Plain
  BY EventSets
<1>3. Lines(m, n) \in [1..(n - m) -> Plain]
  BY <1>2 DEF Lines
<1> QED
  BY <1>1, <1>3 DEF Lines

LEMMA LinesGrow ==
  ASSUME NEW m \in Nat, NEW n \in Nat, m <= n
  PROVE  Lines(m, n + 1) = Lines(m, n) \o <<Line(n + 1)>>
<1>1. /\ Lines(m, n) \in Seq(Plain) /\ Lines(m, n + 1) \in Seq(Plain)
      /\ Len(Lines(m, n)) = n - m /\ Len(Lines(m, n + 1)) = n + 1 - m
      /\ \A i \in 1..(n - m) : Lines(m, n)[i] = Line(m + i)
      /\ \A i \in 1..(n + 1 - m) : Lines(m, n + 1)[i] = Line(m + i)
  <2>1. /\ Lines(m, n) \in Seq(Plain) /\ Len(Lines(m, n)) = n - m
        /\ \A i \in 1..(n - m) : Lines(m, n)[i] = Line(m + i)
    BY LinesList
  <2>2. ASSUME NEW k \in Nat, k = n + 1
        PROVE  /\ Lines(m, k) \in Seq(Plain) /\ Len(Lines(m, k)) = k - m
               /\ \A i \in 1..(k - m) : Lines(m, k)[i] = Line(m + i)
    <3>1. m <= k
      BY <2>2
    <3> QED
      BY <3>1, LinesList
  <2> QED
    BY <2>1, <2>2
<1>2. <<Line(n + 1)>> \in Seq(Plain)
  BY EventSets
<1> DEFINE longer == Lines(m, n) \o <<Line(n + 1)>>
<1>3. /\ longer \in Seq(Plain) /\ Len(longer) = n + 1 - m
      /\ \A i \in 1..(n + 1 - m) : longer[i] = Lines(m, n + 1)[i]
  BY <1>1, <1>2, ConcatProperties
<1> HIDE DEF longer
<1>4. Lines(m, n + 1) = longer
  BY <1>1, <1>3, SeqEqual
<1> QED
  BY <1>4 DEF longer

LEMMA NoLines == ASSUME NEW n \in Nat PROVE Lines(n, n) = <<>>
BY LinesList, EmptySeq

LEMMA EventsAssociate ==
  ASSUME NEW s \in Seq(Event), NEW t \in Seq(Event), NEW u \in Seq(Event)
  PROVE  s \o (t \o u) = (s \o t) \o u
BY ConcatAssociative

LEMMA PlainIsEvents == Seq(Plain) \subseteq Seq(Event)
BY EventSets, SeqMonotonic

(* Passing on the head of the queue changes nothing in the whole.          *)
LEMMA PassOn ==
  ASSUME NEW g \in Seq(Event), NEW q \in Seq(Event), q # <<>>
  PROVE  Append(g, Head(q)) \o Tail(q) = g \o q
<1>1. Head(q) \in Event /\ Tail(q) \in Seq(Event) /\ q = <<Head(q)>> \o Tail(q)
  OBVIOUS
<1>2. Append(g, Head(q)) = g \o <<Head(q)>> /\ <<Head(q)>> \in Seq(Event)
  BY <1>1, AppendIsConcat
<1> QED
  BY <1>1, <1>2, ConcatAssociative

(* What the head of the queue is when the whole is a passage...            *)
LEMMA HeadOfPassage ==
  ASSUME NEW g \in Seq(Plain), NEW q \in Seq(Event), q # <<>>,
         NEW b \in Seq(Plain), g \o q = b
  PROVE  Head(q) \in Plain
<1>1. g \in Seq(Event) /\ Len(q) >= 1 /\ Head(q) = q[1]
  BY EventSets, SeqMonotonic, EmptySeq
<1>2. Len(b) = Len(g) + Len(q) /\ b[Len(g) + 1] = q[1]
  BY <1>1, ConcatProperties
<1> QED
  BY <1>1, <1>2, ElementOfSeq

(* ...and when an ending follows it.                                       *)
LEMMA HeadBeforeEnding ==
  ASSUME NEW g \in Seq(Plain), NEW q \in Seq(Event), q # <<>>,
         NEW b \in Seq(Plain), NEW o \in Event \ Plain,
         g \o q = b \o <<o, Close>>
  PROVE  Head(q) \in Plain \/ (Head(q) = o /\ g = b)
<1> DEFINE whole == b \o <<o, Close>>
<1>1. g \in Seq(Event) /\ b \in Seq(Event) /\ <<o, Close>> \in Seq(Event)
  BY EventSets, SeqMonotonic
<1>2. Len(q) \in Nat /\ Len(q) >= 1 /\ Head(q) = q[1] /\ Len(g) \in Nat /\ Len(b) \in Nat
  BY <1>1, EmptySeq
<1>3. /\ Len(whole) = Len(b) + 2
      /\ \A i \in 1..Len(b) : whole[i] = b[i]
      /\ whole[Len(b) + 1] = o
  BY <1>1, <1>2, ConcatProperties
<1>4. /\ Len(whole) = Len(g) + Len(q)
      /\ \A i \in 1..Len(g) : whole[i] = g[i]
      /\ whole[Len(g) + 1] = q[1]
  BY <1>1, <1>2, ConcatProperties
<1> HIDE DEF whole
<1>5. CASE Len(g) < Len(b)
  BY <1>2, <1>3, <1>4, <1>5, ElementOfSeq
<1>6. CASE Len(g) = Len(b)
  BY <1>2, <1>3, <1>4, <1>6, SeqEqual
<1>7. CASE Len(g) > Len(b)
  BY <1>2, <1>3, <1>4, <1>7, ElementOfSeq
<1> QED
  BY <1>2, <1>5, <1>6, <1>7

LEMMA AfterFirstPart ==
  ASSUME NEW g \in Seq(Event), NEW q \in Seq(Event), NEW n \in 1..Len(q)
  PROVE  (g \o q)[Len(g) + n] = q[n]
<1>1. Len(g) \in Nat /\ Len(q) \in Nat
  OBVIOUS
<1>2. /\ Len(g) + n \in 1..(Len(g) + Len(q))
      /\ ~(Len(g) + n <= Len(g))
      /\ (Len(g) + n) - Len(g) = n
  BY <1>1
<1> QED
  BY <1>2, ConcatProperties

-----------------------------------------------------------------------------
(* Type correctness.                                                       *)

LEMMA OutcomeType == TypeOK => Outcome \in Event /\ IsTerminal(Outcome) /\ Outcome \notin Plain
BY DEF TypeOK, Outcome, Event, IsTerminal, Settled, Plain

LEMMA PublishType ==
  ASSUME TypeOK, NEW evs \in Seq(Event), Publish(evs)
  PROVE  inbox' \in [Client -> Seq(Event)]
<1>1. \A f \in Client : inbox[f] \o evs \in Seq(Event)
  BY ConcatProperties DEF TypeOK
<1> QED
  BY <1>1 DEF TypeOK, Publish

LEMMA HistoryType ==
  ASSUME TypeOK, NEW v
  PROVE  \E first \in 0..lines :
           /\ History(v) = Lines(first, lines)
           /\ first = 0 \/ (v \notin FromStart /\ lines = first + TailLines)
           /\ History(v) \in Seq(Plain)
<1>1. lines \in Nat
  BY JobStreamAssumption DEF TypeOK
<1>2. CASE v \in FromStart \/ TailLines = 0 \/ lines <= TailLines
  <2>1. 0 \in 0..lines /\ History(v) = Lines(0, lines) /\ Lines(0, lines) \in Seq(Plain)
    BY <1>1, <1>2, LinesList DEF History
  <2> QED
    BY <2>1
<1>3. CASE ~(v \in FromStart \/ TailLines = 0 \/ lines <= TailLines)
  <2>1. lines - TailLines \in 0..lines /\ lines = (lines - TailLines) + TailLines
    BY <1>1, <1>3, JobStreamAssumption
  <2>2. History(v) = Lines(lines - TailLines, lines)
    BY <1>3 DEF History
  <2>3. Lines(lines - TailLines, lines) \in Seq(Plain)
    BY <1>1, <2>1, LinesList
  <2> QED
    BY <1>3, <2>1, <2>2, <2>3
<1> QED
  BY <1>2, <1>3

LEMMA TypeStep == TypeOK /\ [Next]_vars => TypeOK'
<1> SUFFICES ASSUME TypeOK, [Next]_vars
             PROVE  TypeOK'
  OBVIOUS
<1> USE DEF TypeOK, jobVars, clientVars
<1>0. "submit" \in Client /\ Viewer \subseteq Client /\ MaxLines \in Nat
  BY JobStreamAssumption DEF Client
<1>1. ASSUME NEW detach \in BOOLEAN, Submit(detach)
      PROVE  TypeOK'
  <2>1. <<Waiting>> \in Seq(Event)
    BY DEF Waiting, Event
  <2> QED
    BY <1>0, <1>1, <2>1 DEF Submit
<1>2. CASE CancelQueued
  <2>1. << <<"cancelled", 0>>, Close >> \in Seq(Event)
    BY DEF Close, Event, Settled
  <2> QED
    BY <1>2, <2>1, PublishType DEF CancelQueued, Settled
<1>3. CASE Take \/ AppendLine \/ RunEnds
  BY <1>0, <1>3 DEF Take, AppendLine, RunEnds, Settled
<1>4. CASE OpenFails \/ Opened
  <2>1. PICK news \in {<<>>, <<Evicted>>, <<Running>>, <<Evicted, Running>>} : Publish(news)
    BY <1>4 DEF OpenFails, Opened
  <2>2. news \in Seq(Event)
    <3>1. Evicted \in Event /\ Running \in Event
      BY EventSets
    <3>2. <<>> \in Seq(Event) /\ <<Evicted>> \in Seq(Event) /\ <<Running>> \in Seq(Event)
          /\ <<Evicted, Running>> \in Seq(Event)
      BY <3>1, EmptySeq
    <3> QED
      BY <2>1, <3>2
  <2>3. inbox' \in [Client -> Seq(Event)]
    BY <2>1, <2>2, PublishType
  <2> QED
    BY <1>4, <2>3 DEF OpenFails, Opened, Settled
<1>5. CASE Mirror
  <2>1. mirrored + 1 \in 0..lines /\ <<Line(mirrored + 1)>> \in Seq(Event)
    BY <1>0, <1>5 DEF Mirror, Draining, Line, Event
  <2> QED
    BY <1>5, <2>1, PublishType DEF Mirror
<1>6. CASE Finish
  <2>1. <<Outcome, Close>> \in Seq(Event) /\ Outcome[1] \in Settled
    BY DEF Outcome, Close, Event, Settled
  <2> QED
    BY <1>6, <2>1, PublishType DEF Finish, Draining
<1>7. ASSUME NEW v \in Viewer, Attach(v)
      PROVE  TypeOK'
  <2>1. History(v) \in Seq(Event)
    BY HistoryType, EventSets, SeqMonotonic
  <2> QED
    BY <1>0, <1>7, <2>1 DEF Attach
<1>8. ASSUME NEW v \in Viewer, Follow(v) \/ HistoryBreaks(v)
      PROVE  TypeOK'
  BY <1>8 DEF Follow, HistoryBreaks
<1>9. ASSUME NEW f \in Client, Deliver(f)
      PROVE  TypeOK'
  <2>1. Head(inbox[f]) \in Event /\ Tail(inbox[f]) \in Seq(Event)
    BY <1>9, HeadTailProperties DEF Deliver
  <2>2. Append(got[f], Head(inbox[f])) \in Seq(Event)
    BY <2>1, AppendProperties
  <2>3. got' \in [Client -> Seq(Event)] /\ inbox' \in [Client -> Seq(Event)]
    BY <1>9, <2>1, <2>2 DEF Deliver
  <2>4. conn' \in [Client -> {"none", "history", "streaming", "closed"}] /\ subscribed' \subseteq Client
    BY <1>9 DEF Deliver, Leave
  <2> QED
    BY <1>9, <2>3, <2>4 DEF Deliver
<1>10. ASSUME NEW f \in Client, HangUp(f) \/ StreamBreaks(f)
       PROVE  TypeOK'
  <2>1. <<>> \in Seq(Event)
    BY EmptySeq
  <2> QED
    BY <1>10, <2>1 DEF HangUp, StreamBreaks, Leave
<1>11. CASE UNCHANGED vars
  BY <1>11 DEF vars
<1> QED
  BY <1>1, <1>2, <1>3, <1>4, <1>5, <1>6, <1>7, <1>8, <1>9, <1>10, <1>11 DEF Next, Job

LEMMA JobInvStep == TypeOK /\ JobInv /\ [Next]_vars => JobInv'
<1> SUFFICES ASSUME TypeOK, JobInv, [Next]_vars
             PROVE  JobInv'
  OBVIOUS
<1> USE DEF JobInv, Begun, Outcome, jobVars
<1>1. CASE Job
  BY <1>1 DEF Job, Submit, CancelQueued, Take, OpenFails, Opened, AppendLine, RunEnds, Mirror,
              Draining, Finish, TypeOK
<1>2. CASE ~Job
  BY <1>2 DEF Next, Attach, Follow, HistoryBreaks, Deliver, HangUp, StreamBreaks, vars
<1> QED
  BY <1>1, <1>2

-----------------------------------------------------------------------------
(* What becomes of one client's stream.                                    *)

LEMMA PassageType ==
  ASSUME TypeOK, NEW f, NEW first, NEW last, NEW begin, NEW live,
         Fits(f, first, last, begin, live)
  PROVE  Passage(first, last, begin, live) \in Seq(Plain)
<1>1. first \in Nat /\ last \in Nat /\ live \in Nat /\ mirrored \in Nat
      /\ first <= last /\ live <= mirrored
  BY JobStreamAssumption DEF TypeOK, Fits
<1>2. Lines(first, last) \in Seq(Plain) /\ Lines(live, mirrored) \in Seq(Plain)
  BY <1>1, LinesList
<1>3. begin \in Seq(Plain)
  BY NewsAddUp DEF Fits
<1> QED
  BY <1>2, <1>3, ConcatProperties DEF Passage

LEMMA VerdictType == TypeOK => Verdict \in Event \ Plain /\ IsTerminal(Verdict) /\ Verdict # Close
BY OutcomeType DEF Verdict, Event, Plain, IsTerminal, Settled, Close

(* Nothing moves in the job once its ending is published.                  *)
LEMMA OverIsQuiet == TypeOK /\ JobInv /\ Over => ~Job
BY DEF TypeOK, JobInv, Over, Outcome, Begun, Job, Submit, CancelQueued, Take, OpenFails, Opened,
       AppendLine, RunEnds, Draining, Mirror, Finish

(* The steps of the other clients.                                         *)
Same(f) ==
  /\ conn'[f] = conn[f] /\ got'[f] = got[f] /\ inbox'[f] = inbox[f]
  /\ f \in gone' <=> f \in gone
  /\ f \in subscribed' <=> f \in subscribed

LEMMA JobStill ==
  ASSUME UNCHANGED jobVars
  PROVE  /\ Over' <=> Over
         /\ Verdict' = Verdict /\ lines' = lines /\ row' = row
         /\ \A f, first, last, begin, live :
              /\ Fits(f, first, last, begin, live)' <=> Fits(f, first, last, begin, live)
              /\ Passage(first, last, begin, live)' = Passage(first, last, begin, live)
BY DEF jobVars, Over, Verdict, Outcome, Fits, Passage

LEMMA StreamFrame ==
  ASSUME NEW f, StreamInv(f), Same(f), UNCHANGED jobVars
  PROVE  StreamInv(f)'
<1>1. Sent(f)' = Sent(f)
  BY DEF Same, Sent
<1>2. Listens(f) => Listens(f)'
  BY <1>1, JobStill DEF Same, Listens
<1>3. WasTold(f) => WasTold(f)'
  BY JobStill DEF Same, WasTold
<1> QED
  BY <1>2, <1>3, JobStill DEF Same, StreamInv

(* Submit opens the submit's own stream, which begins with its answer.     *)
LEMMA SubmitStep ==
  ASSUME TypeOK, JobInv, NEW f \in Client, StreamInv(f), NEW detach \in BOOLEAN, Submit(detach)
  PROVE  StreamInv(f)'
<1>1. /\ conn[f] = "none" /\ f \notin subscribed /\ got[f] = <<>> /\ inbox[f] = <<>>
      /\ f \notin gone /\ row' # "none"
      /\ UNCHANGED <<inbox, gone, run, lines, mirrored>>
  BY DEF Submit, StreamInv
<1>2. CASE f # "submit"
  BY <1>1, <1>2 DEF Submit, StreamInv, TypeOK
<1>3. CASE f = "submit" /\ detach
  BY <1>1, <1>3 DEF Submit, StreamInv, TypeOK
<1>4. CASE f = "submit" /\ ~detach
  <2>1. lines = 0 /\ mirrored = 0 /\ run = "no" /\ ~Over'
    BY <1>1 DEF Submit, JobInv, TypeOK, Over, Outcome, Begun
  <2>2. got'[f] = <<Waiting>> /\ f \in subscribed' /\ conn'[f] = "streaming"
    BY <1>4 DEF Submit, TypeOK
  <2>3. Hello(f) = <<Waiting>> /\ Hello(f) \in News(f) /\ <<Waiting>> \in Seq(Plain)
    BY <1>4, EventSets, NewsAddUp DEF Hello
  <2>4. Fits(f, 0, 0, Hello(f), 0)'
    BY <1>1, <2>1, <2>3 DEF Fits, Begun
  <2>5. Sent(f)' = Passage(0, 0, Hello(f), 0)'
    <3>1. <<Waiting>> \o <<>> = <<Waiting>> /\ <<>> \o <<Waiting>> = <<Waiting>>
      BY ConcatEmptySeq, <2>3
    <3> QED
      BY <1>1, <2>1, <2>2, <2>3, <3>1, NoLines DEF Sent, Passage
  <2>6. Listens(f)'
    BY <1>1, <2>1, <2>2, <2>3, <2>4, <2>5 DEF Listens
  <2> QED
    BY <1>1, <2>2, <2>6 DEF StreamInv
<1> QED
  BY <1>2, <1>3, <1>4

(* What is published is added to the whole of what a client is sent.       *)
LEMMA SentGrows ==
  ASSUME NEW f, got[f] \in Seq(Event), inbox[f] \in Seq(Event), NEW evs \in Seq(Event),
         got' = got, inbox'[f] = inbox[f] \o evs
  PROVE  Sent(f)' = Sent(f) \o evs
<1>1. got[f] \o (inbox[f] \o evs) = (got[f] \o inbox[f]) \o evs
  BY EventsAssociate
<1> QED
  BY <1>1 DEF Sent

(* The other steps of the job grow what everybody who listens is sent.     *)
LEMMA ListensStep ==
  ASSUME TypeOK, TypeOK', JobInv, JobInv', NEW f \in Client, Listens(f), ~Over,
         UNCHANGED <<got, subscribed>>,
         CancelQueued \/ Take \/ OpenFails \/ Opened \/ AppendLine \/ RunEnds \/ Mirror \/ Finish
  PROVE  Listens(f)'
<1>1. PICK first \in 0..lines, last \in 0..lines, live \in 0..lines, begin \in News(f) :
        Fits(f, first, last, begin, live) /\ Sent(f) = Passage(first, last, begin, live)
  BY DEF Listens
<1>2. f \in subscribed' /\ got'[f] \in Seq(Plain) /\ got[f] \in Seq(Event) /\ inbox[f] \in Seq(Event)
  BY DEF Listens, TypeOK
<1>3. lines \in Nat /\ lines' \in Nat /\ mirrored \in Nat /\ mirrored <= lines
  BY JobStreamAssumption DEF TypeOK
<1>4. Passage(first, last, begin, live) \in Seq(Plain)
  BY <1>1, PassageType
<1>5. CASE Take \/ AppendLine \/ RunEnds
  <2>1. inbox' = inbox /\ mirrored' = mirrored /\ lines <= lines' /\ ~Over'
    BY <1>3, <1>5 DEF Take, AppendLine, RunEnds, clientVars, Over, JobInv
  <2>2. /\ run \in Begun <=> run' \in Begun
        /\ run' \in {"no", "opening"} => run \in {"no", "opening"}
    <3>1. CASE Take
      BY <3>1 DEF Take, JobInv, Outcome, Begun, TypeOK
    <3>2. CASE AppendLine
      BY <3>2 DEF AppendLine
    <3>3. CASE RunEnds
      BY <3>3 DEF RunEnds, Begun
    <3> QED
      BY <1>5, <3>1, <3>2, <3>3
  <2>3. Fits(f, first, last, begin, live)'
    BY <1>1, <1>3, <2>1, <2>2 DEF Fits
  <2>4. Sent(f)' = Passage(first, last, begin, live)'
    BY <1>1, <2>1 DEF Sent, Passage
  <2>5. first \in 0..lines' /\ last \in 0..lines' /\ live \in 0..lines'
    BY <1>3, <2>1
  <2> QED
    BY <1>2, <2>1, <2>3, <2>4, <2>5 DEF Listens
<1>6. CASE OpenFails \/ Opened
  <2>1. run = "opening" /\ lines = 0 /\ mirrored = 0 /\ lines' = 0 /\ mirrored' = 0 /\ ~Over'
    BY <1>3, <1>6 DEF OpenFails, Opened, JobInv, Begun, TypeOK, Over
  <2>2. first = 0 /\ last = 0 /\ live = 0 /\ begin = Hello(f)
    BY <1>1, <2>1 DEF Fits
  <2>3. \A b \in Seq(Plain) : (<<>> \o b) \o <<>> = b
    BY ConcatEmptySeq
  <2>4. Sent(f) = Hello(f) /\ Hello(f) \in Seq(Plain)
    BY <1>1, <2>1, <2>2, <2>3, NoLines, NewsAddUp DEF Passage
  <2>5. ASSUME NEW news \in Seq(Event), Publish(news), Hello(f) \o news \in News(f),
               Fits(f, 0, 0, Hello(f) \o news, 0)'
        PROVE  Listens(f)'
    <3>1. inbox'[f] = inbox[f] \o news
      BY <1>2, <2>5 DEF Listens, Publish
    <3>2. Sent(f)' = Hello(f) \o news
      BY <1>2, <2>4, <3>1, SentGrows
    <3>3. Hello(f) \o news \in Seq(Plain)
      BY <2>5, NewsAddUp
    <3>4. Sent(f)' = Passage(0, 0, Hello(f) \o news, 0)'
      BY <2>1, <2>3, <3>2, <3>3, NoLines DEF Passage
    <3> QED
      BY <1>2, <2>1, <2>5, <3>4 DEF Listens
  <2>6. <<Evicted>> \in Seq(Event) /\ <<Running>> \in Seq(Event)
        /\ <<Evicted, Running>> \in Seq(Event)
    BY EventSets
  <2>7. CASE OpenFails
    <3>1. run' = "raised"
      BY <2>7 DEF OpenFails
    <3>2. ASSUME NEW told \in News(f) PROVE Fits(f, 0, 0, told, 0)'
      BY <2>1, <3>1, <3>2 DEF Fits, Begun
    <3>3. CASE Publish(<<>>)
      <4>1. Hello(f) \o <<>> = Hello(f) /\ Hello(f) \in News(f) /\ <<>> \in Seq(Event)
        BY <2>4, NewsAddUp, ConcatEmptySeq
      <4> QED
        BY <2>5, <3>2, <3>3, <4>1
    <3>4. CASE Publish(<<Evicted>>)
      <4>1. Hello(f) \o <<Evicted>> \in News(f)
        BY NewsAddUp
      <4> QED
        BY <2>5, <2>6, <3>2, <3>4, <4>1
    <3> QED
      BY <2>7, <3>3, <3>4 DEF OpenFails
  <2>8. CASE Opened
    <3>1. run' = "running"
      BY <2>8 DEF Opened
    <3>2. PICK news \in {<<Running>>, <<Evicted, Running>>} : Publish(news)
      BY <2>8 DEF Opened
    <3>3. Hello(f) \o news \in Runs(f) /\ Hello(f) \o news \in News(f)
      BY NewsAddUp
    <3>4. Fits(f, 0, 0, Hello(f) \o news, 0)'
      BY <2>1, <3>1, <3>3 DEF Fits
    <3> QED
      BY <2>5, <2>6, <3>2, <3>3, <3>4
  <2> QED
    BY <1>6, <2>7, <2>8
<1>7. CASE Mirror
  <2>1. /\ lines' = lines /\ mirrored' = mirrored + 1 /\ run' = run /\ ~Over'
        /\ inbox'[f] = inbox[f] \o <<Line(mirrored + 1)>>
    BY <1>2, <1>7 DEF Listens, Mirror, Publish, Over
  <2>2. live \in Nat /\ live <= mirrored
    BY <1>1, <1>3 DEF Fits
  <2>3. /\ Lines(live, mirrored + 1) = Lines(live, mirrored) \o <<Line(mirrored + 1)>>
        /\ Lines(live, mirrored) \in Seq(Event)
    BY <1>3, <2>2, LinesGrow, LinesList, EventSets, SeqMonotonic
  <2>4. Lines(first, last) \o begin \in Seq(Event) /\ <<Line(mirrored + 1)>> \in Seq(Event)
    <3>1. first \in Nat /\ last \in Nat /\ first <= last
      BY <1>1, <1>3 DEF Fits
    <3>2. Lines(first, last) \in Seq(Plain)
      BY <3>1, LinesList
    <3>3. begin \in Seq(Plain)
      BY NewsAddUp
    <3>4. Line(mirrored + 1) \in Plain
      <4>1. mirrored + 1 \in Nat
        BY <1>3
      <4> QED
        BY <4>1, EventSets
    <3>5. <<Line(mirrored + 1)>> \in Seq(Plain)
      BY <3>4
    <3>6. Lines(first, last) \o begin \in Seq(Plain)
      BY <3>2, <3>3, ConcatProperties
    <3> QED
      BY <3>5, <3>6, PlainIsEvents
  <2>5. Passage(first, last, begin, live)' = Passage(first, last, begin, live) \o <<Line(mirrored + 1)>>
    <3> DEFINE next == <<Line(mirrored + 1)>>
    <3>1. next \in Seq(Event) /\ Lines(live, mirrored + 1) = Lines(live, mirrored) \o next
      BY <2>3, <2>4
    <3> HIDE DEF next
    <3>2. Passage(first, last, begin, live)'
            = (Lines(first, last) \o begin) \o (Lines(live, mirrored) \o next)
      BY <2>1, <3>1 DEF Passage
    <3>3. @ = ((Lines(first, last) \o begin) \o Lines(live, mirrored)) \o next
      BY <2>3, <2>4, <3>1, EventsAssociate
    <3> QED
      BY <3>2, <3>3 DEF Passage, next
  <2>6. Sent(f)' = Sent(f) \o <<Line(mirrored + 1)>>
    BY <1>2, <2>1, <2>4, SentGrows
  <2>7. Fits(f, first, last, begin, live)'
    BY <1>1, <1>3, <2>1 DEF Fits
  <2> QED
    BY <1>1, <1>2, <2>1, <2>5, <2>6, <2>7 DEF Listens
<1>8. CASE CancelQueued \/ Finish
  <2>1. /\ UNCHANGED <<lines, mirrored, code>> /\ Over'
        /\ inbox'[f] = inbox[f] \o <<Verdict', Close>>
    <3>1. CASE CancelQueued
      BY <1>2, <1>8, <3>1 DEF Listens, CancelQueued, Publish, Over, Verdict, JobInv
    <3>2. CASE Finish
      BY <1>2, <1>8, <3>2 DEF Listens, Finish, Publish, Over, Verdict, Outcome
    <3> QED
      BY <1>8, <3>1, <3>2
  <2>2. /\ run \in Begun <=> run' \in Begun
        /\ run' \in {"no", "opening"} => run \in {"no", "opening"}
    BY <1>8 DEF CancelQueued, Finish, Draining, Begun
  <2>3. Fits(f, first, last, begin, live)'
    BY <1>1, <2>1, <2>2 DEF Fits
  <2>4. Verdict' \in Event /\ Close \in Event
    <3>1. Outcome' \in Event
      BY DEF TypeOK, Outcome, Event, Settled
    <3> QED
      BY <3>1, EventSets DEF Verdict, Event, Settled
  <2>5. <<Verdict', Close>> \in Seq(Event)
    BY <2>4
  <2>6. Sent(f)' = Sent(f) \o <<Verdict', Close>>
    BY <1>2, <2>1, <2>5, SentGrows
  <2>7. Passage(first, last, begin, live)' = Passage(first, last, begin, live)
    BY <2>1 DEF Passage
  <2> QED
    BY <1>1, <1>2, <2>1, <2>3, <2>6, <2>7 DEF Listens
<1> QED
  BY <1>5, <1>6, <1>7, <1>8

LEMMA JobStep ==
  ASSUME TypeOK, TypeOK', JobInv, JobInv', NEW f \in Client, StreamInv(f),
         CancelQueued \/ Take \/ OpenFails \/ Opened \/ AppendLine \/ RunEnds \/ Mirror \/ Finish
  PROVE  StreamInv(f)'
<1>1. ~Over
  BY OverIsQuiet DEF Job
<1>2. UNCHANGED <<subscribed, conn, got, gone>>
  BY DEF CancelQueued, Take, OpenFails, Opened, AppendLine, RunEnds, Mirror, Finish, clientVars
<1>3. f \notin subscribed => inbox'[f] = inbox[f]
  BY DEF CancelQueued, Take, OpenFails, Opened, AppendLine, RunEnds, Mirror, Finish, Publish, clientVars
<1>4. row' = "none" => row = "none"
  BY DEF CancelQueued, Take, OpenFails, Opened, AppendLine, RunEnds, Mirror, Finish, Outcome
<1>5. Listens(f) => Listens(f)'
  BY <1>1, <1>2, ListensStep
<1>6. ~WasTold(f)
  BY <1>1 DEF WasTold
<1> QED
  BY <1>2, <1>3, <1>4, <1>5, <1>6 DEF StreamInv

(* A viewer that attaches is sent its part of the log, and will be sent    *)
(* every line that the mirror task has not yet published.                  *)
LEMMA AttachStep ==
  ASSUME TypeOK, NEW v \in Viewer, StreamInv(v), Attach(v)
  PROVE  StreamInv(v)'
<1>1. /\ got[v] = <<>> /\ inbox[v] = <<>> /\ v \notin gone /\ row # "none" /\ v # "submit"
      /\ v \in Client
  BY JobStreamAssumption DEF Attach, StreamInv, Client
<1>2. /\ UNCHANGED jobVars /\ UNCHANGED <<inbox, gone>>
      /\ v \in subscribed' /\ conn'[v] = "history" /\ got'[v] = History(v)
  BY <1>1 DEF Attach, TypeOK
<1>3. PICK first \in 0..lines :
        /\ History(v) = Lines(first, lines)
        /\ first = 0 \/ (v \notin FromStart /\ lines = first + TailLines)
        /\ History(v) \in Seq(Plain)
  BY HistoryType
<1>4. lines \in Nat /\ mirrored \in 0..lines
  BY JobStreamAssumption DEF TypeOK
<1>5. Hello(v) = <<>> /\ <<>> \in News(v)
  BY <1>1, NewsAddUp DEF Hello
<1>6. Fits(v, first, lines, <<>>, mirrored)
  BY <1>1, <1>3, <1>4, <1>5 DEF Fits
<1>7. Sent(v)' = Passage(first, lines, <<>>, mirrored)
  <2>1. Lines(mirrored, mirrored) = <<>>
    BY <1>4, NoLines
  <2>2. History(v) \o <<>> = History(v)
    BY <1>3, ConcatEmptySeq
  <2> QED
    BY <1>1, <1>2, <1>3, <2>1, <2>2 DEF Sent, Passage
<1>8. Listens(v)'
  BY <1>1, <1>2, <1>3, <1>4, <1>5, <1>6, <1>7, JobStill DEF Listens
<1> QED
  BY <1>1, <1>2, <1>8, JobStill DEF StreamInv

(* A client whose connection is closed is sent nothing any more.           *)
LEMMA GoneStep ==
  ASSUME TypeOK, NEW f \in Client, StreamInv(f),
         HistoryBreaks(f) \/ HangUp(f) \/ StreamBreaks(f) \/ (Deliver(f) /\ f \in gone)
  PROVE  StreamInv(f)'
<1>1. f \in gone' /\ got'[f] = <<>> /\ conn'[f] # "none" /\ row' = row /\ row # "none"
  BY DEF HistoryBreaks, HangUp, StreamBreaks, Deliver, Leave, StreamInv, TypeOK, jobVars
<1> QED
  BY <1>1 DEF StreamInv

LEMMA FollowStep ==
  ASSUME TypeOK, NEW f \in Client, StreamInv(f), Follow(f)
  PROVE  StreamInv(f)'
<1>1. /\ UNCHANGED jobVars /\ UNCHANGED <<subscribed, inbox, got, gone>>
      /\ conn[f] = "history" /\ conn'[f] = "streaming"
  BY DEF Follow, TypeOK
<1>2. Sent(f)' = Sent(f)
  BY <1>1 DEF Sent
<1>3. Listens(f) => Listens(f)'
  BY <1>1, <1>2, JobStill DEF Listens
<1> QED
  BY <1>1, <1>3, JobStill DEF StreamInv

(* The client is sent the next event of its queue; if that tells the       *)
(* outcome, it is all of them.                                             *)
LEMMA DeliverStep ==
  ASSUME TypeOK, NEW f \in Client, StreamInv(f), Deliver(f), f \notin gone
  PROVE  StreamInv(f)'
<1> DEFINE ev == Head(inbox[f])
<1>1. /\ conn[f] = "streaming" /\ inbox[f] # <<>> /\ Listens(f) /\ row # "none"
      /\ UNCHANGED jobVars /\ UNCHANGED gone
  BY DEF Deliver, StreamInv
<1>2. got[f] \in Seq(Plain) /\ got[f] \in Seq(Event) /\ inbox[f] \in Seq(Event)
  BY <1>1 DEF Listens, TypeOK
<1>3. inbox'[f] = Tail(inbox[f])
  BY DEF Deliver, TypeOK
<1>4. PICK first \in 0..lines, last \in 0..lines, live \in 0..lines, begin \in News(f) :
        /\ Fits(f, first, last, begin, live)
        /\ \/ Sent(f) = Passage(first, last, begin, live) /\ (f = "submit" => ~Over)
           \/ Over /\ Sent(f) = Passage(first, last, begin, live) \o <<Verdict, Close>>
  BY <1>1 DEF Listens
<1>5. Passage(first, last, begin, live) \in Seq(Plain)
  BY <1>4, PassageType
<1>6. Verdict \in Event \ Plain /\ IsTerminal(Verdict) /\ Verdict # Close
  BY VerdictType
<1>7. ev \in Plain \/ (ev = Verdict /\ got[f] = Passage(first, last, begin, live) /\ Over)
  BY <1>1, <1>2, <1>4, <1>5, <1>6, HeadOfPassage, HeadBeforeEnding DEF Sent
<1>8. CASE ev \in Plain
  <2>1. ev # Close /\ ~IsTerminal(ev)
    BY <1>8, EventSets
  <2>2. got'[f] = Append(got[f], ev) /\ UNCHANGED <<conn, subscribed>>
    BY <1>1, <2>1 DEF Deliver, TypeOK
  <2>3. got'[f] \in Seq(Plain)
    BY <1>2, <1>8, <2>2, AppendProperties
  <2>4. Sent(f)' = Sent(f)
    BY <1>1, <1>2, <1>3, <2>2, PassOn DEF Sent
  <2>5. /\ Fits(f, first, last, begin, live)' /\ (Over' <=> Over)
        /\ Passage(first, last, begin, live)' = Passage(first, last, begin, live)
        /\ Verdict' = Verdict /\ lines' = lines
    BY <1>1, <1>4, JobStill
  <2>6. f \in subscribed'
    BY <1>1, <2>2 DEF Listens
  <2>7. Listens(f)'
    BY <1>4, <2>3, <2>4, <2>5, <2>6 DEF Listens
  <2> QED
    BY <1>1, <2>2, <2>7, JobStill DEF StreamInv
<1>9. CASE ev = Verdict /\ got[f] = Passage(first, last, begin, live) /\ Over
  <2>1. got'[f] = Append(got[f], Verdict) /\ conn'[f] = "closed"
    BY <1>1, <1>6, <1>9 DEF Deliver, Leave, TypeOK
  <2>2. got'[f] = Passage(first, last, begin, live) \o <<Verdict>>
    BY <1>5, <1>9, <2>1, AppendIsConcat
  <2>3. WasTold(f)'
    BY <1>1, <1>4, <1>9, <2>2, JobStill DEF WasTold
  <2> QED
    BY <1>1, <2>1, <2>3, JobStill DEF StreamInv
<1> QED
  BY <1>7, <1>8, <1>9

-----------------------------------------------------------------------------
(* The invariant.                                                          *)

IInv == TypeOK /\ JobInv /\ Streams

LEMMA StreamsInit == Init => IInv
<1> SUFFICES ASSUME Init PROVE IInv
  OBVIOUS
<1>1. <<>> \in Seq(Event) /\ MaxLines \in Nat
  BY JobStreamAssumption, EmptySeq
<1>2. TypeOK
  BY <1>1 DEF Init, TypeOK
<1>3. JobInv
  BY DEF Init, JobInv, Begun
<1>4. Streams
  BY DEF Init, Streams, StreamInv
<1> QED
  BY <1>2, <1>3, <1>4 DEF IInv

LEMMA StreamsStep == IInv /\ [Next]_vars => IInv'
<1> SUFFICES ASSUME IInv, [Next]_vars PROVE IInv'
  OBVIOUS
<1>1. TypeOK /\ JobInv /\ TypeOK' /\ JobInv'
  BY TypeStep, JobInvStep DEF IInv
<1>2. ASSUME NEW f \in Client PROVE StreamInv(f)'
  <2>1. StreamInv(f)
    BY DEF IInv, Streams
  <2>2. CASE Job
    BY <1>1, <2>1, <2>2, SubmitStep, JobStep DEF Job
  <2>3. ASSUME NEW v \in Viewer, Attach(v) \/ Follow(v) \/ HistoryBreaks(v)
        PROVE  StreamInv(f)'
    <3>1. CASE v = f
      BY <1>1, <2>1, <2>3, <3>1, AttachStep, FollowStep, GoneStep
    <3>2. CASE v # f
      <4>1. Same(f) /\ UNCHANGED jobVars
        BY <1>1, <2>3, <3>2 DEF Attach, Follow, HistoryBreaks, Same, TypeOK
      <4> QED
        BY <2>1, <4>1, StreamFrame
    <3> QED
      BY <3>1, <3>2
  <2>4. ASSUME NEW g \in Client, Deliver(g) \/ HangUp(g) \/ StreamBreaks(g)
        PROVE  StreamInv(f)'
    <3>1. CASE g = f
      BY <1>1, <2>1, <2>4, <3>1, DeliverStep, GoneStep
    <3>2. CASE g # f
      <4>1. Same(f) /\ UNCHANGED jobVars
        BY <1>1, <2>4, <3>2 DEF Deliver, HangUp, StreamBreaks, Leave, Same, TypeOK
      <4> QED
        BY <2>1, <4>1, StreamFrame
    <3> QED
      BY <3>1, <3>2
  <2>5. CASE UNCHANGED vars
    <3>1. Same(f) /\ UNCHANGED jobVars
      BY <2>5 DEF vars, Same, jobVars
    <3> QED
      BY <2>1, <3>1, StreamFrame
  <2> QED
    BY <2>2, <2>3, <2>4, <2>5 DEF Next
<1> QED
  BY <1>1, <1>2 DEF IInv, Streams

LEMMA StreamsInvariant == Spec => []IInv
BY StreamsInit, StreamsStep, PTL DEF Spec

(* Every queue and every connection holds events of the protocol, and the  *)
(* mirror task is never ahead of the log it follows.                       *)
THEOREM StreamTypeCorrect == Spec => []TypeOK
<1>1. IInv => TypeOK
  BY DEF IInv
<1> QED
  BY <1>1, StreamsInvariant, PTL

(* What a client has been sent in the end is one ending after no other.    *)
LEMMA OneEnding ==
  ASSUME NEW b \in Seq(Plain), NEW o \in Event, NEW s, s = b \o <<o>>
  PROVE  /\ Len(s) = Len(b) + 1 /\ Len(b) \in Nat
         /\ DOMAIN s = 1..(Len(b) + 1)
         /\ s[Len(b) + 1] = o
         /\ \A i \in 1..Len(b) : s[i] \in Plain
<1>1. b \in Seq(Event) /\ <<o>> \in Seq(Event) /\ Len(b) \in Nat
  BY PlainIsEvents
<1>2. /\ s \in Seq(Event) /\ Len(s) = Len(b) + 1
      /\ s[Len(b) + 1] = o
      /\ \A i \in 1..Len(b) : s[i] = b[i]
  BY <1>1, ConcatProperties
<1> QED
  BY <1>1, <1>2, ElementOfSeq

LEMMA ExitCodeIsLast ==
  ASSUME NEW b \in Seq(Plain), NEW o \in Event, IsTerminal(o)
  PROVE  ExitCode(b \o <<o>>) = o[2]
<1> DEFINE s == b \o <<o>>
           ends == {i \in DOMAIN s : IsTerminal(s[i])}
<1>1. /\ Len(b) \in Nat /\ DOMAIN s = 1..(Len(b) + 1) /\ s[Len(b) + 1] = o
      /\ \A i \in 1..Len(b) : s[i] \in Plain
  BY OneEnding
<1> HIDE DEF s
<1>2. ends = {Len(b) + 1}
  <2>1. Len(b) + 1 \in ends
    BY <1>1
  <2>2. ASSUME NEW i \in ends PROVE i = Len(b) + 1
    BY <1>1, <2>2, EventSets
  <2> QED
    BY <2>1, <2>2
<1>3. (CHOOSE i \in ends : \A k \in ends : k <= i) = Len(b) + 1
  BY <1>1, <1>2
<1>4. ExitCode(s) = s[Len(b) + 1][2]
  BY <1>2, <1>3 DEF ExitCode
<1> QED
  BY <1>1, <1>4 DEF s

(* Who has been told the outcome was sent all that was to come before it.  *)
LEMMA ToldMeansTold ==
  ASSUME IInv, NEW f \in Client, Told(f, Outcome)
  PROVE  /\ run = "over" /\ mirrored = eof /\ (eof < lines => code = -1)
         /\ \E first, last, live \in 0..lines, begin \in News(f) :
              /\ Fits(f, first, last, begin, live)
              /\ Passage(first, last, begin, live) \in Seq(Plain)
              /\ got[f] = Passage(first, last, begin, live) \o <<Outcome>>
<1>1. TypeOK /\ JobInv /\ StreamInv(f)
  BY DEF IInv, Streams
<1>2. Outcome \in Event /\ Outcome \notin Plain
  BY <1>1, OutcomeType
<1>3. PICK i \in DOMAIN got[f] : got[f][i] = Outcome
  BY DEF Told
<1>4. got[f] \notin Seq(Plain) /\ got[f] # <<>>
  BY <1>2, <1>3, ElementOfSeq
<1>5. <<Waiting>> \in Seq(Plain)
  BY EventSets
<1>6. WasTold(f)
  BY <1>1, <1>4, <1>5 DEF StreamInv, Listens, TypeOK
<1>7. PICK first \in 0..lines, last \in 0..lines, live \in 0..lines, begin \in News(f) :
        /\ Fits(f, first, last, begin, live)
        /\ got[f] = Passage(first, last, begin, live) \o <<Verdict>>
  BY <1>6 DEF WasTold
<1>8. Passage(first, last, begin, live) \in Seq(Plain) /\ Verdict \in Event
  BY <1>1, <1>7, PassageType, VerdictType
<1>9. Verdict = Outcome
  BY <1>2, <1>3, <1>7, <1>8, OneEnding
<1>10. run = "over"
  BY <1>1, <1>9 DEF Verdict, Outcome
<1> QED
  BY <1>1, <1>7, <1>8, <1>9, <1>10 DEF JobInv

(* A submit that waited has been sent all that was in the log when its     *)
(* job's run ended, in order and once, before it is told the outcome, and  *)
(* exits with the job's code: _run_job awaits the mirror task before it    *)
(* publishes.  What is in the log besides, a run that raised has left.     *)
THEOREM SubmitIsSentItAll == Spec => []SubmitSeesItAll
<1>1. IInv => SubmitSeesItAll
  <2> SUFFICES ASSUME IInv, Told("submit", Outcome)
               PROVE  /\ \E begin \in {<<Waiting, Running>>, <<Waiting, Evicted, Running>>} :
                           got["submit"] = begin \o Lines(0, eof) \o <<Outcome>>
                      /\ eof < lines => code = -1
                      /\ ExitCode(got["submit"]) = code
    BY DEF SubmitSeesItAll
  <2>1. TypeOK /\ "submit" \in Client
    BY DEF IInv, Client
  <2>2. /\ run = "over" /\ mirrored = eof /\ (eof < lines => code = -1)
        /\ \E first, last, live \in 0..lines, begin \in News("submit") :
             /\ Fits("submit", first, last, begin, live)
             /\ Passage(first, last, begin, live) \in Seq(Plain)
             /\ got["submit"] = Passage(first, last, begin, live) \o <<Outcome>>
    BY <2>1, ToldMeansTold
  <2>3. PICK first \in 0..lines, last \in 0..lines, live \in 0..lines, begin \in News("submit") :
          /\ Fits("submit", first, last, begin, live)
          /\ Passage(first, last, begin, live) \in Seq(Plain)
          /\ got["submit"] = Passage(first, last, begin, live) \o <<Outcome>>
    BY <2>2
  <2>4. lines \in Nat /\ mirrored \in Nat
    BY <2>1, JobStreamAssumption DEF TypeOK
  <2>5. first = 0 /\ last = 0 /\ live = 0 /\ begin \in Runs("submit")
    BY <2>2, <2>3, <2>4 DEF Fits, Begun
  <2>6. Passage(first, last, begin, live) = begin \o Lines(0, eof)
    <3>1. begin \in Seq(Plain)
      BY <2>3, NewsAddUp
    <3>2. Lines(0, 0) = <<>> /\ <<>> \o begin = begin
      BY <3>1, NoLines, ConcatEmptySeq
    <3> QED
      BY <2>2, <2>5, <3>2 DEF Passage
  <2>7. Outcome \in Event /\ IsTerminal(Outcome) /\ Outcome[2] = code
    BY <2>1, OutcomeType DEF Outcome
  <2>8. ExitCode(got["submit"]) = code
    BY <2>3, <2>7, ExitCodeIsLast
  <2> QED
    BY <2>2, <2>3, <2>5, <2>6, <2>8 DEF Runs
<1> QED
  BY <1>1, StreamsInvariant, PTL

(* A viewer that is told the outcome has been sent, before it, the part of *)
(* the log it asked for and every line from there to the end of the run:   *)
(* _handle_attach subscribes before it reads the log, and Bus keeps what   *)
(* is published while the history is sent.                                 *)
THEOREM NoLineIsMissed == Spec => []ViewerMissesNothing
<1>1. IInv => ViewerMissesNothing
  <2> SUFFICES ASSUME IInv, NEW v \in Viewer, Told(v, Outcome)
               PROVE  \E first, last \in 0..lines, live \in 0..eof,
                         begin \in {<<>>, <<Running>>, <<Evicted, Running>>} :
                        /\ got[v] = Lines(first, last) \o begin \o Lines(live, eof) \o <<Outcome>>
                        /\ first <= last /\ live <= last
                        /\ begin # <<>> => last = 0
                        /\ first = 0 \/ (v \notin FromStart /\ last = first + TailLines)
    BY DEF ViewerMissesNothing
  <2>1. v \in Client /\ v # "submit"
    BY JobStreamAssumption DEF Client
  <2>2. /\ run = "over" /\ mirrored = eof
        /\ \E first, last, live \in 0..lines, begin \in News(v) :
             /\ Fits(v, first, last, begin, live)
             /\ Passage(first, last, begin, live) \in Seq(Plain)
             /\ got[v] = Passage(first, last, begin, live) \o <<Outcome>>
    BY <2>1, ToldMeansTold
  <2>3. PICK first \in 0..lines, last \in 0..lines, live \in 0..lines, begin \in News(v) :
          /\ Fits(v, first, last, begin, live)
          /\ got[v] = Passage(first, last, begin, live) \o <<Outcome>>
    BY <2>2
  <2>4. live \in 0..eof
    BY <2>2, <2>3 DEF Fits
  <2>5. Hello(v) = <<>> /\ Runs(v) = {<<Running>>, <<Evicted, Running>>}
    BY <2>1 DEF Hello, Runs
  <2>6. begin \in {<<>>, <<Running>>, <<Evicted, Running>>} /\ (begin # <<>> => last = 0)
    BY <2>2, <2>3, <2>5 DEF Fits, Begun
  <2> QED
    BY <2>2, <2>3, <2>4, <2>6 DEF Fits, Passage
<1> QED
  BY <1>1, StreamsInvariant, PTL

(* As long as no ending was passed on, it is in the queue.                 *)
LEMMA VerdictIsQueued ==
  ASSUME TypeOK, NEW f \in Client, got[f] \in Seq(Plain),
         NEW b \in Seq(Plain), Sent(f) = b \o <<Verdict, Close>>
  PROVE  \E i \in DOMAIN inbox[f] : inbox[f][i] = Verdict
<1> DEFINE g == got[f]
           q == inbox[f]
           whole == b \o <<Verdict, Close>>
           n == Len(b) + 1 - Len(g)
<1>1. g \in Seq(Event) /\ g \in Seq(Plain) /\ q \in Seq(Event) /\ b \in Seq(Event)
  BY PlainIsEvents DEF TypeOK
<1>2. Verdict \in Event \ Plain /\ <<Verdict, Close>> \in Seq(Event)
  BY VerdictType, EventSets
<1>3. whole = g \o q
  BY DEF Sent
<1> HIDE DEF g, q
<1>4. Len(q) \in Nat /\ DOMAIN q = 1..Len(q) /\ Len(g) \in Nat /\ Len(b) \in Nat
  BY <1>1
<1>5. Len(whole) = Len(b) + 2 /\ whole[Len(b) + 1] = Verdict
  BY <1>1, <1>2, <1>4, ConcatProperties
<1> HIDE DEF whole
<1>6. Len(g \o q) = Len(g) + Len(q) /\ \A i \in 1..Len(g) : (g \o q)[i] = g[i]
  BY <1>1, <1>4, ConcatProperties
<1>7. Len(g) < Len(b) + 1
  BY <1>1, <1>2, <1>3, <1>4, <1>5, <1>6, ElementOfSeq
<1>8. n \in 1..Len(q) /\ Len(g) + n = Len(b) + 1
  BY <1>3, <1>4, <1>5, <1>6, <1>7
<1> HIDE DEF n
<1>9. (g \o q)[Len(g) + n] = q[n]
  BY <1>1, <1>8, AfterFirstPart
<1> QED
  BY <1>3, <1>4, <1>5, <1>8, <1>9 DEF q

(* No submit waits in vain: once its job is over, the news of that is in   *)
(* its queue for as long as it is not told.  It is what the liveness of    *)
(* submit rests on, and the reason why only a job that is never announced  *)
(* leaves it hanging (_run_job, _handle_cancel, _stream_until_terminal).   *)
THEOREM SubmitIsNeverForgotten == Spec => []EndingIsQueued
<1>1. IInv => EndingIsQueued
  <2> SUFFICES ASSUME IInv, conn["submit"] = "streaming", "submit" \notin gone, Over
               PROVE  \E i \in DOMAIN inbox["submit"] : inbox["submit"][i] = Verdict
    BY DEF EndingIsQueued
  <2>1. TypeOK /\ StreamInv("submit") /\ inbox["submit"] \in Seq(Event)
    BY DEF IInv, Streams, Client, TypeOK
  <2>2. Listens("submit") /\ got["submit"] \in Seq(Plain)
    BY <2>1 DEF StreamInv, Listens
  <2>3. PICK first \in 0..lines, last \in 0..lines, live \in 0..lines, begin \in News("submit") :
          /\ Fits("submit", first, last, begin, live)
          /\ Sent("submit") = Passage(first, last, begin, live) \o <<Verdict, Close>>
    BY <2>2 DEF Listens
  <2>4. Passage(first, last, begin, live) \in Seq(Plain)
    BY <2>1, <2>3, PassageType
  <2> QED
    BY <2>1, <2>2, <2>3, <2>4, VerdictIsQueued DEF Client
<1> QED
  BY <1>1, StreamsInvariant, PTL
=============================================================================

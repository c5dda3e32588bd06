--------------------------- MODULE NetworkProofs ---------------------------
(***************************************************************************)
(* Proofs about Network: a BC95-G never goes on line with other bands than *)
(* those required, and Attach leaves the modem attached unless the modem   *)
(* or another reply kept it from it, for every number of tries and faults. *)
(***************************************************************************)
EXTENDS Network, TLAPS, WellFoundedInduction

Values == {"0", "1", "other", "none", "required"}

\* Who has the lock is the one in the middle of an exchange.
Exclusive ==
    \A t \in Threads : step[t] \in {"locked", "sent"} <=> holder = t

\* What a line tells of the modem.  A fresh line tells its present state: it
\* answers the last command, and nothing has changed since.  The required
\* bands, once seen, stay.
Tells(line) ==
    /\ line.text = "required" => bands = "required"
    /\ line.fresh /\ line.text = "1" => attached
    /\ line.fresh /\ line.text = "OK" /\ line.to = "CGATT=1" => attached

\* A value is followed by the end of its reply.
Paired(lines) ==
    \A i \in 1 .. Len(lines) :
        lines[i].text \in Values =>
            /\ i + 1 \in 1 .. Len(lines)
            /\ lines[i + 1].text \in Finals
            /\ lines[i + 1].fresh = lines[i].fresh

\* While main waits for its reply the fresh lines are that reply.
Answers(line) ==
    step["main"] = "sent" /\ line.fresh => line.to = Command(mpc)

LinesInv ==
    /\ Paired(rx) /\ Paired(late)
    /\ \A i \in 1 .. Len(rx) : Tells(rx[i]) /\ Answers(rx[i])
    /\ \A i \in 1 .. Len(late) : Tells(late[i]) /\ Answers(late[i])

\* The limit of `tries` at every point.
Limit(p) ==
    CASE p \in {"MODEL", "CHECK1", "ATTACH", "CHECK2", "CHECK3"} -> Tries
      [] p \in {"GETBAND", "SETUP", "REGET", "RESETUP"} -> 2
      [] p = "SETBAND" -> BandTries
      [] p \in {"PSM1", "PSM2"} -> PsmTries
      [] p = "SIGNAL" -> SignalQueries
      [] OTHER -> 1

TriesInv == tries \in Nat /\ tries < Limit(mpc)

\* BC95-G takes its own way through PreInitModule, and past the test of the
\* bands only with those required.
BandsInv ==
    module = "BC95G" =>
        /\ bands # "none"
        /\ mpc \notin {"SETUP", "RESETUP", "PSM1", "PSM2"}
        /\ Running \/ mpc = "FWVER" => bands = "required"

Sent == IF step["main"] = "sent" THEN 1 ELSE 0

\* How far Attach is.
AttachInv ==
    /\ mpc = "CHECK1" => failed = 0
    /\ mpc = "ATTACH" => /\ attached \/ misread \/ failed = tries + Sent
                         /\ failed <= tries + Sent
    /\ mpc \in {"CHECK2", "CHECK3"} \/ (mpc = "UP" /\ ~online) =>
          attached \/ misread \/ failed = Tries

NetInv ==
    /\ TypeOK /\ Exclusive /\ LinesInv /\ TriesInv /\ BandsInv /\ AttachInv
    /\ mpc \notin ExchangePoints => step["main"] = "begin"

-----------------------------------------------------------------------------
(* The first line that ends a reply, and the value before it.              *)

LEMMA MinFacts ==
    ASSUME NEW S \in SUBSET Nat, S # {}
    PROVE  Min(S) \in S /\ \A x \in S : Min(S) <= x
<1>. DEFINE R == {ss \in Nat \X Nat : ss[1] < ss[2]}
<1>1. IsWellFoundedOn(R, Nat)
      BY NatLessThanWellFounded DEF OpToRel
<1>. HIDE DEF R
<1>2. PICK x \in S : \A y \in S : ~(<<y, x>> \in R)
  <2>1. S \subseteq Nat
        OBVIOUS
  <2>. QED  BY <1>1, <2>1, WFMin, Zenon
<1>3. ASSUME NEW y \in S PROVE x <= y
  <2>1. x \in Nat /\ y \in Nat
        OBVIOUS
  <2>2. ~(<<y, x>> \in R)
        BY <1>2
  <2>3. ~(y < x)
        BY <2>1, <2>2, Zenon DEF R
  <2>. QED  BY <2>1, <2>3
<1>. QED  BY <1>2, <1>3 DEF Min

\* resp_stop() finds the first "OK" or "ERROR".
LEMMA FinalFacts ==
    ASSUME rx \in Seq(Lines)
    PROVE  /\ FinalAt \in 0 .. Len(rx)
           /\ FinalAt > 0 =>
                /\ rx[FinalAt].text \in Finals
                /\ \A i \in 1 .. FinalAt - 1 : rx[i].text \notin Finals
<1>. DEFINE S == {i \in 1 .. Len(rx) : rx[i].text \in Finals}
<1>1. FinalAt = IF S # {} THEN Min(S) ELSE 0
      BY DEF FinalAt, SelectInSeq
<1>2. S \in SUBSET Nat
      OBVIOUS
<1>3. CASE S = {}
      BY <1>1, <1>3
<1>4. CASE S # {}
  <2>1. Min(S) \in S /\ \A x \in S : Min(S) <= x
        BY <1>2, <1>4, MinFacts
  <2>2. FinalAt = Min(S)
        BY <1>1, <1>4
  <2>3. FinalAt \in 1 .. Len(rx) /\ rx[FinalAt].text \in Finals
        BY <2>1, <2>2
  <2>4. \A i \in 1 .. FinalAt - 1 : rx[i].text \notin Finals
        BY <2>1, <2>2, <2>3
  <2>. QED  BY <2>3, <2>4
<1>. QED  BY <1>3, <1>4

\* resp_start() and read_int() find a value of the command before it.
LEMMA ValueFacts ==
    ASSUME rx \in Seq(Lines), FinalAt > 0, NEW c
    PROVE  /\ ValueAt(c) \in 0 .. FinalAt - 1
           /\ ValueAt(c) > 0 => rx[ValueAt(c)].to = c
<1>. DEFINE s == SubSeq(rx, 1, FinalAt - 1)
            S == {i \in 1 .. Len(s) : s[i].to = c}
<1>1. FinalAt \in 1 .. Len(rx)
      BY FinalFacts
<1>2. Len(s) = FinalAt - 1 /\ \A i \in 1 .. FinalAt - 1 : s[i] = rx[i]
      BY <1>1
<1>3. ValueAt(c) = IF S # {} THEN Min(S) ELSE 0
      BY DEF ValueAt, SelectInSeq
<1>4. S \in SUBSET Nat
      BY <1>1, <1>2
<1>5. CASE S = {}
      BY <1>1, <1>3, <1>5
<1>6. CASE S # {}
  <2>1. Min(S) \in S
        BY <1>4, <1>6, MinFacts
  <2>2. ValueAt(c) \in S
        BY <1>3, <1>6, <2>1
  <2>3. ValueAt(c) \in 1 .. Len(s) /\ s[ValueAt(c)].to = c
        BY <2>2
  <2>. QED  BY <1>1, <1>2, <2>3
<1>. QED  BY <1>5, <1>6

-----------------------------------------------------------------------------
(* Sequences of lines.                                                     *)

LEMMA CommandFacts ==
    mpc \in ExchangePoints => Command(mpc) \in Commands
BY DEF ExchangePoints, BootPoints, AttachPoints, Command, Commands, Queries,
       Orders

LEMMA PairedConcat ==
    ASSUME NEW s \in Seq(Lines), NEW t \in Seq(Lines), Paired(s), Paired(t)
    PROVE  Paired(s \o t)
<1>1. /\ Len(s \o t) = Len(s) + Len(t)
      /\ \A i \in 1 .. Len(s) + Len(t) :
            (s \o t)[i] = IF i <= Len(s) THEN s[i] ELSE t[i - Len(s)]
      OBVIOUS
<1>2. ASSUME NEW i \in 1 .. Len(s) + Len(t), (s \o t)[i].text \in Values
      PROVE  /\ i + 1 \in 1 .. Len(s) + Len(t)
             /\ (s \o t)[i + 1].text \in Finals
             /\ (s \o t)[i + 1].fresh = (s \o t)[i].fresh
  <2>1. CASE i <= Len(s)
    <3>1. i \in 1 .. Len(s) /\ (s \o t)[i] = s[i]
          BY <1>1, <2>1
    <3>2. /\ i + 1 \in 1 .. Len(s) /\ s[i + 1].text \in Finals
          /\ s[i + 1].fresh = s[i].fresh
          BY <1>2, <3>1 DEF Paired
    <3>. QED  BY <1>1, <3>1, <3>2
  <2>2. CASE i > Len(s)
    <3>. DEFINE j == i - Len(s)
    <3>1. j \in 1 .. Len(t) /\ (s \o t)[i] = t[j]
          BY <1>1, <2>2
    <3>2. /\ j + 1 \in 1 .. Len(t) /\ t[j + 1].text \in Finals
          /\ t[j + 1].fresh = t[j].fresh
          BY <1>2, <3>1 DEF Paired
    <3>3. /\ i + 1 \in 1 .. Len(s) + Len(t) /\ i + 1 > Len(s)
          /\ (i + 1) - Len(s) = j + 1
          BY <2>2, <3>1, <3>2
    <3>4. (s \o t)[i + 1] = t[j + 1]
          BY <1>1, <3>3
    <3>. QED  BY <3>1, <3>2, <3>3, <3>4
  <2>. QED  BY <2>1, <2>2
<1>. QED  BY <1>1, <1>2 DEF Paired

LEMMA OutdatedFacts ==
    ASSUME NEW s \in Seq(Lines)
    PROVE  /\ Outdated(s) \in Seq(Lines) /\ Len(Outdated(s)) = Len(s)
           /\ \A i \in 1 .. Len(s) :
                 /\ ~Outdated(s)[i].fresh
                 /\ Outdated(s)[i].text = s[i].text
                 /\ Outdated(s)[i].to = s[i].to
           /\ Paired(s) => Paired(Outdated(s))
<1>. DEFINE o == Outdated(s)
<1>1. DOMAIN s = 1 .. Len(s) /\ \A i \in 1 .. Len(s) : s[i] \in Lines
      OBVIOUS
<1>2. o = [i \in 1 .. Len(s) |-> [s[i] EXCEPT !.fresh = FALSE]]
      BY <1>1 DEF Outdated
<1>. HIDE DEF o
<1>3. ASSUME NEW i \in 1 .. Len(s)
      PROVE  /\ o[i] \in Lines /\ o[i].fresh = FALSE
             /\ o[i].text = s[i].text /\ o[i].to = s[i].to
  <2>1. o[i] = [s[i] EXCEPT !.fresh = FALSE]
        BY <1>2
  <2>. QED  BY <1>1, <2>1 DEF Lines
<1>4. o \in Seq(Lines) /\ Len(o) = Len(s)
  <2>1. o \in [1 .. Len(s) -> Lines]
        BY <1>2, <1>3, Zenon
  <2>. QED  BY <2>1
<1>5. Paired(s) => Paired(o)
      BY <1>3, <1>4 DEF Paired
<1>. QED  BY <1>3, <1>4, <1>5 DEF o

LEMMA SuffixFacts ==
    ASSUME NEW s \in Seq(Lines), NEW k \in 1 .. Len(s) + 1
    PROVE  LET r == SubSeq(s, k, Len(s))
           IN  /\ r \in Seq(Lines) /\ Len(r) = Len(s) + 1 - k
               /\ \A i \in 1 .. Len(s) + 1 - k :
                     r[i] = s[i + k - 1] /\ i + k - 1 \in 1 .. Len(s)
               /\ Paired(s) => Paired(r)
<1>. DEFINE r == SubSeq(s, k, Len(s))
<1>1. r \in Seq(Lines) /\ Len(r) = Len(s) + 1 - k
      OBVIOUS
<1>2. \A i \in 1 .. Len(s) + 1 - k :
         r[i] = s[i + k - 1] /\ i + k - 1 \in 1 .. Len(s)
      OBVIOUS
<1>. HIDE DEF r
<1>3. ASSUME Paired(s), NEW i \in 1 .. Len(r), r[i].text \in Values
      PROVE  /\ i + 1 \in 1 .. Len(r) /\ r[i + 1].text \in Finals
             /\ r[i + 1].fresh = r[i].fresh
  <2>. DEFINE j == i + k - 1
  <2>1. j \in 1 .. Len(s) /\ r[i] = s[j]
        BY <1>1, <1>2
  <2>2. /\ j + 1 \in 1 .. Len(s) /\ s[j + 1].text \in Finals
        /\ s[j + 1].fresh = s[j].fresh
        BY <1>3, <2>1 DEF Paired
  <2>3. i + 1 \in 1 .. Len(r) /\ (i + 1) + k - 1 = j + 1
        BY <1>1, <2>2
  <2>4. r[i + 1] = s[j + 1]
        BY <1>1, <1>2, <2>3
  <2>. QED  BY <2>1, <2>2, <2>3, <2>4
<1>4. Paired(s) => Paired(r)
      BY <1>3 DEF Paired
<1>. QED  BY <1>1, <1>2, <1>4 DEF r

LEMMA ConcatFacts ==
    ASSUME NEW s \in Seq(Lines), NEW t \in Seq(Lines)
    PROVE  /\ s \o t \in Seq(Lines) /\ Len(s \o t) = Len(s) + Len(t)
           /\ \A i \in 1 .. Len(s) + Len(t) :
                 (s \o t)[i] = IF i <= Len(s) THEN s[i] ELSE t[i - Len(s)]
OBVIOUS

LEMMA JoinLines ==
    ASSUME NEW a \in Lines, NEW b \in Lines
    PROVE  /\ <<a>> \o <<b>> \in Seq(Lines) /\ Len(<<a>> \o <<b>>) = 2
           /\ (<<a>> \o <<b>>)[1] = a /\ (<<a>> \o <<b>>)[2] = b
           /\ <<>> \o <<b>> \in Seq(Lines) /\ Len(<<>> \o <<b>>) = 1
           /\ (<<>> \o <<b>>)[1] = b
<1>. DEFINE s == <<a>>
            t == <<b>>
            n == <<>>
<1>1. /\ s \in Seq(Lines) /\ Len(s) = 1 /\ s[1] = a
      /\ t \in Seq(Lines) /\ Len(t) = 1 /\ t[1] = b
      /\ n \in Seq(Lines) /\ Len(n) = 0
      OBVIOUS
<1>. HIDE DEF s, t, n
<1>2. /\ s \o t \in Seq(Lines) /\ Len(s \o t) = 2
      /\ (s \o t)[1] = s[1] /\ (s \o t)[2] = t[1]
  <2>1. Len(s) + Len(t) = 2 /\ s \in Seq(Lines) /\ t \in Seq(Lines)
        BY <1>1
  <2>2. s \o t \in Seq(Lines) /\ Len(s \o t) = 2
        BY <2>1, ConcatFacts
  <2>3. 1 \in 1 .. Len(s) + Len(t) /\ 2 \in 1 .. Len(s) + Len(t)
        BY <2>1
  <2>4. (s \o t)[1] = IF 1 <= Len(s) THEN s[1] ELSE t[1 - Len(s)]
        BY <2>1, <2>3, ConcatFacts
  <2>5. (s \o t)[2] = IF 2 <= Len(s) THEN s[2] ELSE t[2 - Len(s)]
        BY <2>1, <2>3, ConcatFacts
  <2>6. Len(s) = 1 /\ 2 - 1 = 1 /\ ~(2 <= 1) /\ 1 <= 1
        BY <1>1
  <2>. QED  BY <2>2, <2>4, <2>5, <2>6
<1>3. /\ n \o t \in Seq(Lines) /\ Len(n \o t) = 1 /\ (n \o t)[1] = t[1]
  <2>1. /\ n \o t \in Seq(Lines) /\ Len(n \o t) = 1
        /\ \A i \in 1 .. 1 :
              (n \o t)[i] = IF i <= 0 THEN n[i] ELSE t[i - 0]
        BY <1>1, ConcatFacts
  <2>. QED  BY <2>1
<1>. QED  BY <1>1, <1>2, <1>3 DEF s, t, n

\* The lines of the modem's reply.
LEMMA ReplyFacts ==
    ASSUME ChannelTypeOK, NEW c \in Commands
    PROVE  /\ Value(c) \in Values
           /\ Reply(c) \in Seq(Lines) /\ Paired(Reply(c))
           /\ \A i \in 1 .. Len(Reply(c)) :
                 /\ Reply(c)[i].to = c
                 /\ Reply(c)[i].text \in {"OK"} \cup (IF c \in Queries
                                            THEN {Value(c)} ELSE {})
<1>1. Value(c) \in Values
      BY DEF Value, Values, ChannelTypeOK
<1>2. /\ Line(c, "OK") \in Lines /\ Line(c, Value(c)) \in Lines
      BY <1>1 DEF Line, Lines, Texts, Values, Finals
<1>3. CASE c \in Queries
  <2>1. Reply(c) = <<Line(c, Value(c))>> \o <<Line(c, "OK")>>
        BY <1>3 DEF Reply
  <2>2. /\ Len(Reply(c)) = 2 /\ Reply(c)[1] = Line(c, Value(c))
        /\ Reply(c)[2] = Line(c, "OK")
        BY <1>2, <2>1, JoinLines
  <2>3. Reply(c) \in Seq(Lines)
        BY <1>2, <2>1, JoinLines
  <2>4. \A i \in 1 .. 2 : i = 1 \/ i = 2
        OBVIOUS
  <2>5. Paired(Reply(c))
    <3>1. "OK" \notin Values /\ "OK" \in Finals /\ 1 + 1 \in 1 .. 2
          BY DEF Values, Finals
    <3>2. /\ Reply(c)[2].text = "OK"
          /\ Reply(c)[1].fresh = TRUE /\ Reply(c)[2].fresh = TRUE
          BY <2>2 DEF Line
    <3>3. ASSUME NEW i \in 1 .. 2, Reply(c)[i].text \in Values
          PROVE  i = 1 /\ i + 1 = 2 /\ i + 1 \in 1 .. 2
          BY <2>4, <3>1, <3>2, <3>3
    <3>. QED  BY <2>2, <3>1, <3>2, <3>3 DEF Paired
  <2>. QED  BY <1>1, <1>3, <2>2, <2>3, <2>4, <2>5 DEF Line
<1>4. CASE c \notin Queries
  <2>1. Reply(c) = <<>> \o <<Line(c, "OK")>>
        BY <1>4 DEF Reply
  <2>2. /\ Len(Reply(c)) = 1 /\ Reply(c)[1] = Line(c, "OK")
        BY <1>2, <2>1, JoinLines
  <2>3. Reply(c) \in Seq(Lines)
        BY <1>2, <2>1, JoinLines
  <2>4. Paired(Reply(c))
        BY <2>2 DEF Paired, Line, Values, Finals
  <2>5. \A i \in 1 .. 1 : i = 1
        OBVIOUS
  <2>. QED  BY <1>1, <1>4, <2>2, <2>3, <2>4, <2>5 DEF Line
<1>. QED  BY <1>3, <1>4

\* Commands do what they say, and the required bands stay.
LEMMA ExecuteFacts ==
    ASSUME ChannelTypeOK, NEW c \in Commands, Execute(c)
    PROVE  /\ attached' \in BOOLEAN /\ bands' \in {"none", "other", "required"}
           /\ bands = "required" => bands' = "required"
           /\ bands # "none" => bands' # "none"
           /\ c = "CGATT=1" => attached'
           /\ c # "CGATT=0" /\ attached => attached'
           /\ c \in Queries => (attached' <=> attached) /\ bands' = bands
<1>1. /\ attached' \in BOOLEAN
      /\ c = "CGATT=1" => attached'
      /\ c # "CGATT=0" /\ attached => attached'
      BY DEF Execute
<1>2. c \in Queries => (attached' <=> attached)
      BY DEF Execute, Queries
<1>3. /\ bands' \in {"none", "other", "required"}
      /\ bands = "required" => bands' = "required"
      /\ bands # "none" => bands' # "none"
      /\ c \in Queries => bands' = bands
      BY DEF Execute, Queries, ChannelTypeOK
<1>. QED  BY <1>1, <1>2, <1>3

\* The reply to the command that has just been executed tells the truth.
LEMMA ReplyTells ==
    ASSUME ChannelTypeOK, NEW c \in Commands, Execute(c),
           NEW line, line.to = c,
           line.text \in {"OK"} \cup (IF c \in Queries THEN {Value(c)} ELSE {})
    PROVE  /\ line.text = "required" => bands' = "required"
           /\ line.text = "1" => attached'
           /\ line.text = "OK" /\ line.to = "CGATT=1" => attached'
<1>1. CASE c \in Queries /\ line.text = Value(c)
  <2>1. (attached' <=> attached) /\ bands' = bands
        BY <1>1, ExecuteFacts
  <2>2. line.text = "required" => bands = "required"
        BY <1>1 DEF Value
  <2>3. line.text = "1" => attached
        BY <1>1 DEF Value, ChannelTypeOK
  <2>4. line.text # "OK"
        BY <1>1, ReplyFacts DEF Values
  <2>. QED  BY <2>1, <2>2, <2>3, <2>4
<1>2. CASE line.text = "OK"
      BY <1>2, ExecuteFacts
<1>. QED  BY <1>1, <1>2

-----------------------------------------------------------------------------
(* The exchange of a thread.                                               *)

\* What a command leaves to be read: the lines before it, and its reply.
LEMMA SendLines ==
    ASSUME ChannelTypeOK, LinesInv, ModemAssumption,
           NEW t \in Threads, NEW c \in Commands, Send(t, c),
           step'["main"] = "sent" => c = Command(mpc')
    PROVE  /\ ChannelTypeOK' /\ LinesInv'
           /\ bands = "required" => bands' = "required"
           /\ bands # "none" => bands' # "none"
           /\ c # "CGATT=0" /\ attached => attached'
<1>. DEFINE old == Outdated(rx \o late)
            err == <<Line(c, "ERROR")>>
            Good(line) == /\ line.text = "required" => bands' = "required"
                          /\ line.fresh /\ line.text = "1" => attached'
                          /\ line.fresh /\ line.text = "OK"
                                /\ line.to = "CGATT=1" => attached'
                          /\ line.fresh => line.to = c
<1>1. rx \in Seq(Lines) /\ late \in Seq(Lines)
      BY DEF ChannelTypeOK
<1>2. /\ rx \o late \in Seq(Lines) /\ Paired(rx \o late)
      /\ \A i \in 1 .. Len(rx \o late) :
            (rx \o late)[i].text = "required" => bands = "required"
  <2>1. rx \o late \in Seq(Lines) /\ Len(rx \o late) = Len(rx) + Len(late)
        BY <1>1, ConcatFacts
  <2>2. Paired(rx \o late)
        BY <1>1, PairedConcat DEF LinesInv
  <2>3. ASSUME NEW i \in 1 .. Len(rx) + Len(late),
               (rx \o late)[i].text = "required"
        PROVE  bands = "required"
    <3>1. (rx \o late)[i] = IF i <= Len(rx) THEN rx[i] ELSE late[i - Len(rx)]
          BY <1>1, ConcatFacts
    <3>2. Len(rx) \in Nat /\ Len(late) \in Nat
          BY <1>1
    <3>3. CASE i <= Len(rx)
      <4>1. i \in 1 .. Len(rx) /\ rx[i].text = "required"
            BY <2>3, <3>1, <3>2, <3>3
      <4>. QED  BY <4>1 DEF LinesInv, Tells
    <3>4. CASE ~(i <= Len(rx))
      <4>1. i - Len(rx) \in 1 .. Len(late)
            BY <3>2, <3>4
      <4>2. late[i - Len(rx)].text = "required"
            BY <2>3, <3>1, <3>4
      <4>. QED  BY <4>1, <4>2 DEF LinesInv, Tells
    <3>. QED  BY <3>3, <3>4
  <2>. QED  BY <2>1, <2>2, <2>3
<1>3. /\ old \in Seq(Lines) /\ Paired(old)
      /\ \A i \in 1 .. Len(old) :
            ~old[i].fresh /\ (old[i].text = "required" => bands = "required")
      BY <1>2, OutdatedFacts
<1>4. /\ err \in Seq(Lines) /\ Paired(err)
      /\ Len(err) = 1 /\ err[1] = Line(c, "ERROR")
  <2>1. Line(c, "ERROR") \in Lines
        BY DEF Line, Lines, Texts, Finals
  <2>2. err \in Seq(Lines) /\ Len(err) = 1 /\ err[1] = Line(c, "ERROR")
        BY <2>1
  <2>3. err[1].text = "ERROR" /\ "ERROR" \notin Values
        BY <2>2 DEF Line, Values
  <2>. QED  BY <2>2, <2>3 DEF Paired
<1>5. /\ Reply(c) \in Seq(Lines) /\ Paired(Reply(c))
      BY ReplyFacts
<1>6. /\ attached' \in BOOLEAN /\ bands' \in {"none", "other", "required"}
      /\ bands = "required" => bands' = "required"
      /\ bands # "none" => bands' # "none"
      /\ c # "CGATT=0" /\ attached => attached'
  <2>1. CASE Execute(c)
        BY <2>1, ExecuteFacts
  <2>2. CASE UNCHANGED modemVars
        BY <2>2 DEF modemVars, ChannelTypeOK
  <2>. QED  BY <2>1, <2>2 DEF Send
<1>7. \A i \in 1 .. Len(old) : Good(old[i])
      BY <1>3, <1>6
<1>8. \A i \in 1 .. Len(err) : Good(err[i])
      BY <1>4 DEF Line
<1>9. ASSUME Execute(c) PROVE \A i \in 1 .. Len(Reply(c)) : Good(Reply(c)[i])
      BY <1>9, ReplyFacts, ReplyTells
<1>10. ASSUME NEW s \in Seq(Lines), \A i \in 1 .. Len(s) : Good(s[i])
       PROVE  \A i \in 1 .. Len(old \o s) : Good((old \o s)[i])
  <2>1. /\ Len(old \o s) = Len(old) + Len(s)
        /\ Len(old) \in Nat /\ Len(s) \in Nat
        BY <1>3, ConcatFacts
  <2>2. ASSUME NEW i \in 1 .. Len(old) + Len(s)
        PROVE  \/ i \in 1 .. Len(old) /\ (old \o s)[i] = old[i]
               \/ i - Len(old) \in 1 .. Len(s)
                    /\ (old \o s)[i] = s[i - Len(old)]
    <3>1. (old \o s)[i] = IF i <= Len(old) THEN old[i] ELSE s[i - Len(old)]
          BY <1>3, ConcatFacts
    <3>. QED  BY <2>1, <3>1
  <2>. QED  BY <1>7, <1>10, <2>1, <2>2
<1>11. /\ rx' \in Seq(Lines) /\ Paired(rx')
       /\ late' \in Seq(Lines) /\ Paired(late')
       /\ \A i \in 1 .. Len(rx') : Good(rx'[i])
       /\ \A i \in 1 .. Len(late') : Good(late'[i])
  <2>. HIDE DEF Good, old, err
  <2>1. /\ <<>> \in Seq(Lines) /\ Len(<<>>) = 0 /\ Paired(<<>>)
        BY DEF Paired
  <2>2. CASE rx' = old \o Reply(c) /\ late' = <<>> /\ Execute(c)
    <3>1. old \o Reply(c) \in Seq(Lines) /\ Paired(old \o Reply(c))
          BY <1>3, <1>5, ConcatFacts, PairedConcat
    <3>2. \A i \in 1 .. Len(old \o Reply(c)) : Good((old \o Reply(c))[i])
          BY <1>5, <1>9, <1>10, <2>2
    <3>. QED  BY <2>1, <2>2, <3>1, <3>2
  <2>3. CASE rx' = old \o err /\ late' = <<>>
    <3>1. old \o err \in Seq(Lines) /\ Paired(old \o err)
          BY <1>3, <1>4, ConcatFacts, PairedConcat
    <3>2. \A i \in 1 .. Len(old \o err) : Good((old \o err)[i])
          BY <1>4, <1>8, <1>10
    <3>. QED  BY <2>1, <2>3, <3>1, <3>2
  <2>4. CASE rx' = old /\ late' = <<>>
        BY <1>3, <1>7, <2>1, <2>4
  <2>5. CASE rx' = old /\ late' = Reply(c) /\ Execute(c)
        BY <1>3, <1>5, <1>7, <1>9, <2>5
  <2>. QED  BY <2>2, <2>3, <2>4, <2>5 DEF Send, old, err
<1>12. LinesInv'
  <2>1. \A i \in 1 .. Len(rx') : Tells(rx[i])' /\ Answers(rx[i])'
        BY <1>11 DEF Tells, Answers
  <2>2. \A i \in 1 .. Len(late') : Tells(late[i])' /\ Answers(late[i])'
        BY <1>11 DEF Tells, Answers
  <2>. QED  BY <1>11, <2>1, <2>2 DEF LinesInv
<1>13. /\ faults' \in 0 .. MaxFaults /\ holder' = holder
       /\ step' = [step EXCEPT ![t] = "sent"]
       BY DEF Send, ChannelTypeOK, ModemAssumption
<1>14. ChannelTypeOK'
       BY <1>6, <1>11, <1>13 DEF ChannelTypeOK
<1>. QED  BY <1>6, <1>12, <1>14

\* Steps that send nothing: the lines that are left were there before.
LEMMA KeptLines ==
    ASSUME LinesInv, UNCHANGED modemVars, Paired(rx'), Paired(late'),
           step'["main"] = "sent" => step["main"] = "sent" /\ mpc' = mpc,
           \A i \in 1 .. Len(rx') :
              \/ \E j \in 1 .. Len(rx) : rx'[i] = rx[j]
              \/ \E j \in 1 .. Len(late) : rx'[i] = late[j],
           late' = late \/ late' = <<>>
    PROVE  LinesInv'
<1>. DEFINE Fine(line) == Tells(line) /\ Answers(line)
<1>1. ASSUME NEW i \in 1 .. Len(rx') PROVE Tells(rx[i])' /\ Answers(rx[i])'
  <2>1. \A line : Fine(line) /\ line = rx'[i] =>
                     Tells(rx[i])' /\ Answers(rx[i])'
        BY DEF Tells, Answers, modemVars
  <2>2. \E line : Fine(line) /\ line = rx'[i]
        BY DEF LinesInv
  <2>. QED  BY <2>1, <2>2
<1>2. ASSUME NEW i \in 1 .. Len(late')
      PROVE  Tells(late[i])' /\ Answers(late[i])'
  <2>1. CASE late' = late
    <3>1. Fine(late[i])
          BY <2>1 DEF LinesInv
    <3>. QED  BY <2>1, <3>1 DEF Tells, Answers, modemVars
  <2>2. CASE late' = <<>>
        BY <2>2
  <2>. QED  BY <2>1, <2>2
<1>. QED  BY <1>1, <1>2 DEF LinesInv

\* The reply is read to some point.
LEMMA FinishLines ==
    ASSUME ChannelTypeOK, LinesInv, NEW t \in Threads, NEW c,
           NEW stop \in BOOLEAN, Finish(t, c, stop), faults' = faults,
           step'["main"] = "sent" => step["main"] = "sent" /\ mpc' = mpc
    PROVE  ChannelTypeOK' /\ LinesInv'
<1>1. rx \in Seq(Lines) /\ late' = late /\ UNCHANGED modemVars
      BY DEF ChannelTypeOK, Finish
<1>2. \E k \in 1 .. Len(rx) + 1 : rx' = SubSeq(rx, k, Len(rx))
  <2>1. Len(rx) \in Nat /\ FinalAt \in 0 .. Len(rx)
        BY <1>1, FinalFacts
  <2>2. CASE FinalAt > 0
    <3>. DEFINE at == IF ~stop /\ ValueAt(c) > 0 THEN ValueAt(c) ELSE FinalAt
    <3>1. at \in 0 .. Len(rx)
          BY <1>1, <2>1, <2>2, ValueFacts
    <3>2. rx' = SubSeq(rx, 1 + at, Len(rx))
          BY <2>2 DEF Finish, Rest
    <3>3. 1 + at \in 1 .. Len(rx) + 1
          BY <2>1, <3>1
    <3>. QED  BY <3>2, <3>3
  <2>3. CASE ~(FinalAt > 0)
    <3>1. rx' = rx
          BY <2>3 DEF Finish
    <3>2. rx = SubSeq(rx, 1, Len(rx)) /\ 1 \in 1 .. Len(rx) + 1
          BY <1>1, <2>1
    <3>. QED  BY <3>1, <3>2
  <2>. QED  BY <2>2, <2>3
<1>3. PICK k \in 1 .. Len(rx) + 1 : rx' = SubSeq(rx, k, Len(rx))
      BY <1>2
<1>4. /\ rx' \in Seq(Lines) /\ Len(rx') = Len(rx) + 1 - k /\ Paired(rx')
      /\ \A i \in 1 .. Len(rx) + 1 - k :
            rx'[i] = rx[i + k - 1] /\ i + k - 1 \in 1 .. Len(rx)
      BY <1>1, <1>3, SuffixFacts DEF LinesInv
<1>5. LinesInv'
  <2>1. \A i \in 1 .. Len(rx') : \E j \in 1 .. Len(rx) : rx'[i] = rx[j]
        BY <1>4
  <2>2. Paired(late')
        BY <1>1 DEF LinesInv
  <2>. QED  BY <1>1, <1>4, <2>1, <2>2, KeptLines
<1>6. holder' = None /\ step' = [step EXCEPT ![t] = "begin"]
      BY DEF Finish
<1>7. ChannelTypeOK'
      BY <1>1, <1>4, <1>6 DEF ChannelTypeOK, modemVars
<1>. QED  BY <1>5, <1>7

LEMMA FlushLines ==
    ASSUME ChannelTypeOK, LinesInv, NEW t \in Threads, Flush(t), mpc' = mpc
    PROVE  ChannelTypeOK' /\ LinesInv'
<1>1. /\ rx' = <<>> /\ step' = [step EXCEPT ![t] = "flushed"]
      /\ UNCHANGED <<holder, late, faults, modemVars>>
      BY DEF Flush
<1>2. rx' \in Seq(Lines) /\ Len(rx') = 0 /\ Paired(rx') /\ Paired(late')
      BY <1>1 DEF Paired, LinesInv
<1>3. step'["main"] = "sent" => step["main"] = "sent"
      BY <1>1 DEF ChannelTypeOK
<1>4. LinesInv'
  <2>1. \A i \in 1 .. Len(rx') : \E j \in 1 .. Len(rx) : rx'[i] = rx[j]
        BY <1>2
  <2>. QED  BY <1>1, <1>2, <1>3, <2>1, KeptLines
<1>5. ChannelTypeOK'
      BY <1>1, <1>2 DEF ChannelTypeOK, modemVars
<1>. QED  BY <1>4, <1>5

LEMMA LockLines ==
    ASSUME ChannelTypeOK, LinesInv, NEW t \in Threads, Lock(t), mpc' = mpc
    PROVE  ChannelTypeOK' /\ LinesInv'
<1>1. /\ holder' = t /\ step' = [step EXCEPT ![t] = "locked"]
      /\ UNCHANGED <<rx, late, faults, modemVars>>
      BY DEF Lock
<1>2. step'["main"] = "sent" => step["main"] = "sent"
      BY <1>1 DEF ChannelTypeOK
<1>3. LinesInv'
      BY <1>1, <1>2 DEF LinesInv, Tells, Answers, modemVars
<1>4. ChannelTypeOK'
      BY <1>1 DEF ChannelTypeOK, modemVars
<1>. QED  BY <1>3, <1>4

LEMMA LateLines ==
    ASSUME ChannelTypeOK, LinesInv, LateReply, mpc' = mpc
    PROVE  ChannelTypeOK' /\ LinesInv'
<1>1. /\ rx' = rx \o late /\ late' = <<>>
      /\ UNCHANGED <<holder, step, faults, modemVars>>
      /\ rx \in Seq(Lines) /\ late \in Seq(Lines)
      BY DEF LateReply, ChannelTypeOK
<1>2. /\ rx' \in Seq(Lines) /\ Len(rx') = Len(rx) + Len(late) /\ Paired(rx')
      BY <1>1, ConcatFacts, PairedConcat DEF LinesInv
<1>3. late' \in Seq(Lines) /\ Len(late') = 0 /\ Paired(late')
      BY <1>1 DEF Paired
<1>4. ASSUME NEW i \in 1 .. Len(rx')
      PROVE  \/ \E j \in 1 .. Len(rx) : rx'[i] = rx[j]
             \/ \E j \in 1 .. Len(late) : rx'[i] = late[j]
  <2>1. rx'[i] = IF i <= Len(rx) THEN rx[i] ELSE late[i - Len(rx)]
        BY <1>1, <1>2, ConcatFacts
  <2>2. /\ Len(rx) \in Nat /\ Len(late) \in Nat
        /\ i \in 1 .. Len(rx) + Len(late)
        BY <1>1, <1>2
  <2>3. CASE i <= Len(rx)
        BY <2>1, <2>2, <2>3
  <2>4. CASE ~(i <= Len(rx))
    <3>1. i - Len(rx) \in 1 .. Len(late)
          BY <2>2, <2>4
    <3>. QED  BY <2>1, <2>4, <3>1
  <2>. QED  BY <2>3, <2>4
<1>5. LinesInv'
      BY <1>1, <1>2, <1>3, <1>4, KeptLines
<1>6. ChannelTypeOK'
      BY <1>1, <1>2, <1>3 DEF ChannelTypeOK, modemVars
<1>. QED  BY <1>5, <1>6

-----------------------------------------------------------------------------
(* What main reads.                                                        *)

\* A reply that is not that of another command tells the present state; the
\* required bands are told by any reply.
LEMMA ReadFacts ==
    ASSUME ChannelTypeOK, LinesInv, ModemAssumption, step["main"] = "sent",
           NEW c, c = Command(mpc)
    PROVE  /\ Val(c) = "required" => bands = "required"
           /\ Val(c) = "1" /\ ~Misreads(c) => attached
           /\ Answered(c) /\ ~Misreads(c) /\ c = "CGATT=1" => attached
<1>1. rx \in Seq(Lines) /\ FinalAt \in 0 .. Len(rx)
      BY FinalFacts DEF ChannelTypeOK
<1>2. CASE ~(FinalAt > 0)
  <2>1. Val(c) = None /\ ~Answered(c)
        BY <1>2 DEF Val, Answered
  <2>. QED  BY <2>1 DEF ModemAssumption, Texts
<1>3. CASE FinalAt > 0
  <2>1. /\ FinalAt \in 1 .. Len(rx) /\ rx[FinalAt].text \in Finals
        /\ \A i \in 1 .. FinalAt - 1 : rx[i].text \notin Finals
        BY <1>1, <1>3, FinalFacts
  <2>2. Tells(rx[FinalAt]) /\ Answers(rx[FinalAt])
        BY <2>1 DEF LinesInv
  <2>3. Answered(c) /\ ~Misreads(c) /\ c = "CGATT=1" => attached
        BY <1>3, <2>2 DEF Tells, Answers, Answered, Misreads
  <2>4. CASE ValueAt(c) > 0
    <3>. DEFINE v == ValueAt(c)
    <3>1. v \in 1 .. FinalAt - 1 /\ v \in 1 .. Len(rx) /\ Val(c) = rx[v].text
          BY <1>1, <1>3, <2>4, ValueFacts DEF Val
    <3>2. Tells(rx[v])
          BY <3>1 DEF LinesInv
    <3>3. rx[v].text \in Values
      <4>1. rx[v] \in Lines
            BY <1>1, <3>1
      <4>2. rx[v].text \in Texts
            BY <4>1 DEF Lines
      <4>3. rx[v].text \notin Finals
            BY <2>1, <3>1
      <4>. QED  BY <4>2, <4>3 DEF Texts, Values
    <3>4. /\ v + 1 \in 1 .. Len(rx) /\ rx[v + 1].text \in Finals
          /\ rx[v + 1].fresh = rx[v].fresh
          BY <3>1, <3>3 DEF LinesInv, Paired
    <3>5. v + 1 = FinalAt
      <4>1. v \in Nat /\ FinalAt \in Nat /\ v >= 1 /\ v <= FinalAt - 1
            BY <2>1, <3>1
      <4>2. ~(v + 1 \in 1 .. FinalAt - 1)
            BY <2>1, <3>4
      <4>. HIDE DEF v
      <4>. QED  BY <4>1, <4>2
    <3>6. ~Misreads(c) => rx[v].fresh
          BY <1>3, <3>4, <3>5 DEF Misreads
    <3>. QED  BY <2>3, <3>1, <3>2, <3>6 DEF Tells
  <2>5. CASE ~(ValueAt(c) > 0)
    <3>1. Val(c) = None
          BY <2>5 DEF Val
    <3>. QED  BY <2>3, <3>1 DEF ModemAssumption, Texts
  <2>. QED  BY <2>4, <2>5
<1>. QED  BY <1>2, <1>3

\* Where PreInitModule goes next.
LEMMA BootFacts ==
    ASSUME TypeOK, TriesInv, BandsInv, NetworkAssumption, mpc \in BootPoints,
           NEW ok \in BOOLEAN, NEW val, val = "required" => bands = "required"
    PROVE  LET after == AfterBoot(ok, val)
           IN  /\ after[1] \in BootPoints \cup {"REBOOT", "TOP"}
               /\ after[2] \in Nat /\ after[2] < Limit(after[1])
               /\ module = "BC95G" =>
                    /\ after[1] \notin {"SETUP", "RESETUP", "PSM1", "PSM2"}
                    /\ after[1] \in {"FWVER", "TOP"} => bands = "required"
<1>. DEFINE after == AfterBoot(ok, val)
            Goal == /\ after[1] \in BootPoints \cup {"REBOOT", "TOP"}
                    /\ after[2] \in Nat /\ after[2] < Limit(after[1])
                    /\ module = "BC95G" =>
                         /\ after[1] \notin {"SETUP", "RESETUP", "PSM1", "PSM2"}
                         /\ after[1] \in {"FWVER", "TOP"} => bands = "required"
<1>. USE DEF NetworkAssumption, TriesInv, BandsInv, Limit, BootPoints, Go,
             Again, LastTry, AfterBoot
<1>0. /\ module \in {"BG96", "BC95G", "R410M", "N410"}
      /\ {Tries, BandTries, PsmTries, SignalQueries} \subseteq Nat \ {0}
      BY DEF TypeOK
<1>1. CASE mpc = "MODEL"
      BY <1>0, <1>1
<1>2. CASE mpc = "GETBAND"
      BY <1>0, <1>2 DEF AfterGetBand, AfterBands
<1>3. CASE mpc = "SETUP"
      BY <1>0, <1>3
<1>4. CASE mpc = "CFUN0"
      BY <1>0, <1>4
<1>5. CASE mpc = "SETBAND"
      BY <1>0, <1>5
<1>6. CASE mpc = "CFUN1"
      BY <1>0, <1>6
<1>7. CASE mpc = "REGET"
      BY <1>0, <1>7 DEF AfterReget, AfterBands
<1>8. CASE mpc = "RESETUP"
      BY <1>0, <1>8 DEF AfterBands
<1>9. CASE mpc = "PSM1"
      BY <1>0, <1>9
<1>10. CASE mpc = "PSM2"
      BY <1>0, <1>10
<1>11. CASE mpc = "FWVER"
      BY <1>0, <1>11
<1>. QED  BY <1>1, <1>2, <1>3, <1>4, <1>5, <1>6, <1>7, <1>8, <1>9, <1>10,
             <1>11

\* Where Attach goes next: it is over with the modem attached, after Tries
\* failures, or after a misread reply.
LEMMA AttachFacts ==
    ASSUME TypeOK, TriesInv, AttachInv, NetworkAssumption,
           mpc \in AttachPoints, step["main"] = "sent",
           NEW ok \in BOOLEAN, NEW val, NEW bad \in BOOLEAN,
           val = "1" /\ ~bad => attached,
           mpc = "ATTACH" /\ ok /\ ~bad => attached
    PROVE  LET after == AfterAttach(ok, val)
           IN  /\ after[1] \in AttachPoints \cup {"UP"}
               /\ after[2] \in Nat /\ after[2] < Limit(after[1])
               /\ after[1] = "CHECK1" => failed = 0
               /\ after[1] = "ATTACH" =>
                    /\ attached \/ misread \/ bad \/ failed = after[2]
                    /\ failed <= after[2]
               /\ after[1] \in {"CHECK2", "CHECK3", "UP"} =>
                    attached \/ misread \/ bad \/ failed = Tries
<1>. USE DEF NetworkAssumption, TriesInv, AttachInv, Limit, AttachPoints, Go,
             Again, LastTry, AfterAttach, Sent
<1>0. /\ {Tries, BandTries, PsmTries, SignalQueries} \subseteq Nat \ {0}
      /\ failed \in Nat
      BY DEF TypeOK
<1>1. CASE mpc = "CHECK1"
      BY <1>0, <1>1
<1>2. CASE mpc = "ATTACH"
      BY <1>0, <1>2
<1>3. CASE mpc = "CHECK2"
      BY <1>0, <1>3
<1>4. CASE mpc = "CHECK3"
      BY <1>0, <1>4
<1>. QED  BY <1>1, <1>2, <1>3, <1>4

-----------------------------------------------------------------------------
(* Every step keeps the invariant.                                         *)

LEMMA FlushInv ==
    ASSUME NetInv, ModemAssumption, NetworkAssumption,
           NEW t \in Threads, Flush(t), t = "main" => mpc \in ExchangePoints,
           UNCHANGED <<mainVars, requestVars, ntpVars, historyVars>>
    PROVE  NetInv'
<1>. USE DEF NetInv
<1>1. /\ step' = [step EXCEPT ![t] = "flushed"] /\ step[t] = "begin"
      /\ UNCHANGED <<holder, modemVars>>
      BY DEF Flush
<1>2. UNCHANGED <<module, mpc, tries, real, online, toNetConnect,
                  toNetDisconnect, server, ntp, slow, retry, failed, misread>>
      BY DEF mainVars, requestVars, ntpVars, historyVars
<1>3. ChannelTypeOK' /\ LinesInv'
      BY <1>2, FlushLines DEF TypeOK
<1>4. TypeOK'
      BY <1>2, <1>3 DEF TypeOK
<1>5. step \in [Threads -> {"begin", "flushed", "locked", "sent"}]
      /\ "main" \in Threads
      BY DEF TypeOK, ChannelTypeOK, NetworkAssumption
<1>6. Exclusive'
      BY <1>1, <1>5 DEF Exclusive
<1>7. Sent' = Sent
      BY <1>1, <1>5 DEF Sent
<1>8. TriesInv' /\ BandsInv' /\ AttachInv'
      BY <1>1, <1>2, <1>7 DEF TriesInv, BandsInv, AttachInv, Running, modemVars
<1>9. mpc' \notin ExchangePoints => step'["main"] = "begin"
      BY <1>1, <1>2, <1>5
<1>. QED  BY <1>3, <1>4, <1>6, <1>8, <1>9

LEMMA LockInv ==
    ASSUME NetInv, ModemAssumption, NetworkAssumption,
           NEW t \in Threads, Lock(t), t = "main" => mpc \in ExchangePoints,
           UNCHANGED <<mainVars, requestVars, ntpVars, historyVars>>
    PROVE  NetInv'
<1>. USE DEF NetInv
<1>1. /\ step' = [step EXCEPT ![t] = "locked"] /\ step[t] = "flushed"
      /\ holder = None /\ holder' = t /\ UNCHANGED modemVars
      BY DEF Lock
<1>2. UNCHANGED <<module, mpc, tries, real, online, toNetConnect,
                  toNetDisconnect, server, ntp, slow, retry, failed, misread>>
      BY DEF mainVars, requestVars, ntpVars, historyVars
<1>3. ChannelTypeOK' /\ LinesInv'
      BY <1>2, LockLines DEF TypeOK
<1>4. TypeOK'
      BY <1>2, <1>3 DEF TypeOK
<1>5. step \in [Threads -> {"begin", "flushed", "locked", "sent"}]
      /\ "main" \in Threads /\ None \notin Threads
      BY DEF TypeOK, ChannelTypeOK, NetworkAssumption, ModemAssumption
<1>6. Exclusive'
      BY <1>1, <1>5 DEF Exclusive
<1>7. Sent' = Sent
      BY <1>1, <1>5 DEF Sent
<1>8. TriesInv' /\ BandsInv' /\ AttachInv'
      BY <1>1, <1>2, <1>7 DEF TriesInv, BandsInv, AttachInv, Running, modemVars
<1>9. mpc' \notin ExchangePoints => step'["main"] = "begin"
      BY <1>1, <1>2, <1>5
<1>. QED  BY <1>3, <1>4, <1>6, <1>8, <1>9

LEMMA MainSendInv ==
    ASSUME NetInv, ModemAssumption, NetworkAssumption, MainSend
    PROVE  NetInv'
<1>. USE DEF NetInv
<1>. DEFINE c == Command(mpc)
<1>1. /\ step' = [step EXCEPT !["main"] = "sent"] /\ step["main"] = "locked"
      /\ holder' = holder /\ Send("main", c) /\ mpc \in ExchangePoints
      /\ failed' = IF mpc = "ATTACH" /\ ~attached' THEN failed + 1 ELSE failed
      BY DEF MainSend, Send
<1>2. UNCHANGED <<module, mpc, tries, real, online, toNetConnect,
                  toNetDisconnect, server, ntp, slow, retry, misread>>
      BY DEF MainSend, mainVars, requestVars, ntpVars
<1>3. c \in Commands /\ "main" \in Threads
      BY <1>1, CommandFacts DEF NetworkAssumption
<1>. HIDE DEF c
<1>4. /\ ChannelTypeOK' /\ LinesInv'
      /\ bands = "required" => bands' = "required"
      /\ bands # "none" => bands' # "none"
      /\ c # "CGATT=0" /\ attached => attached'
      BY <1>1, <1>2, <1>3, SendLines DEF TypeOK, c
<1>5. mpc \in AttachPoints => c # "CGATT=0"
      BY DEF c, Command, AttachPoints
<1>6. step \in [Threads -> {"begin", "flushed", "locked", "sent"}]
      BY DEF TypeOK, ChannelTypeOK
<1>7. Sent = 0 /\ Sent' = 1
      BY <1>1, <1>3, <1>6 DEF Sent
<1>8. Exclusive'
      BY <1>1, <1>3, <1>6 DEF Exclusive
<1>9. TriesInv'
      BY <1>2 DEF TriesInv
<1>10. BandsInv'
      BY <1>2, <1>4 DEF BandsInv, Running
<1>11. failed \in Nat /\ tries \in Nat /\ tries < Limit(mpc) /\ Tries \in Nat
       /\ failed \in 0 .. Tries
      BY DEF TypeOK, TriesInv, NetworkAssumption
<1>12. AttachInv' /\ failed' \in 0 .. Tries
  <2>1. CASE mpc = "ATTACH"
    <3>1. attached => attached'
          BY <1>4, <1>5, <2>1 DEF AttachPoints
    <3>2. /\ attached \/ misread \/ failed = tries
          /\ failed <= tries
          BY <1>7, <1>11, <2>1 DEF AttachInv
    <3>3. tries < Tries
          BY <1>11, <2>1 DEF Limit
    <3>4. CASE attached'
          BY <1>1, <1>2, <1>7, <1>11, <2>1, <3>2, <3>4 DEF AttachInv
    <3>5. CASE ~attached'
      <4>1. failed' = failed + 1 /\ ~attached
            BY <1>1, <2>1, <3>1, <3>5
      <4>. QED  BY <1>2, <1>7, <1>11, <2>1, <3>2, <3>3, <4>1 DEF AttachInv
    <3>. QED  BY <3>4, <3>5
  <2>2. CASE mpc # "ATTACH"
    <3>1. failed' = failed
          BY <1>1, <2>2
    <3>2. mpc \in {"CHECK2", "CHECK3"} /\ attached => attached'
          BY <1>4, <1>5 DEF AttachPoints
    <3>3. mpc # "UP"
          BY <1>1 DEF ExchangePoints, BootPoints, AttachPoints
    <3>. QED  BY <1>2, <1>11, <2>2, <3>1, <3>2, <3>3 DEF AttachInv
  <2>. QED  BY <2>1, <2>2
<1>13. TypeOK'
      BY <1>2, <1>4, <1>12 DEF TypeOK
<1>. QED  BY <1>1, <1>2, <1>4, <1>8, <1>9, <1>10, <1>12, <1>13

LEMMA MainFinishInv ==
    ASSUME NetInv, ModemAssumption, NetworkAssumption, MainFinish
    PROVE  NetInv'
<1>. USE DEF NetInv
<1>. DEFINE c == Command(mpc)
            ok == Answered(c)
            val == Val(c)
            bad == mpc \in AttachPoints /\ Misreads(c)
<1>1. /\ step["main"] = "sent" /\ step' = [step EXCEPT !["main"] = "begin"]
      /\ holder' = None /\ UNCHANGED <<attached, bands, faults, module, real,
                          toNetConnect, server, ntp, slow, retry, failed>>
      /\ mpc \in ExchangePoints
      /\ Finish("main", c, mpc \notin {"CHECK2", "CHECK3"})
      /\ misread' = (misread \/ bad)
      /\ toNetDisconnect' = (toNetDisconnect /\ mpc # "DETACH")
      /\ online' = (online /\ mpc # "DETACH")
      BY DEF MainFinish, Finish, modemVars, ntpVars
<1>2. "main" \in Threads /\ None \notin Threads
      /\ step \in [Threads -> {"begin", "flushed", "locked", "sent"}]
      BY DEF NetworkAssumption, ModemAssumption, TypeOK, ChannelTypeOK
<1>3. step'["main"] = "begin" /\ Sent' = 0
      BY <1>1, <1>2 DEF Sent
<1>4. ChannelTypeOK' /\ LinesInv'
  <2>1. (mpc \notin {"CHECK2", "CHECK3"}) \in BOOLEAN
        OBVIOUS
  <2>. QED  BY <1>1, <1>2, <1>3, <2>1, FinishLines DEF TypeOK
<1>5. Exclusive'
      BY <1>1, <1>2 DEF Exclusive
<1>6. /\ val = "required" => bands = "required"
      /\ val = "1" /\ ~Misreads(c) => attached
      /\ ok /\ ~Misreads(c) /\ c = "CGATT=1" => attached
      BY <1>1, ReadFacts DEF TypeOK
<1>7. ok \in BOOLEAN /\ bad \in BOOLEAN
      BY DEF Answered, Misreads
<1>8. {real', online', toNetConnect', toNetDisconnect', misread'}
          \subseteq BOOLEAN
  <2>1. online' \in BOOLEAN /\ toNetDisconnect' \in BOOLEAN
        BY <1>1
  <2>2. misread' \in BOOLEAN
        BY <1>1
  <2>3. real' \in BOOLEAN /\ toNetConnect' \in BOOLEAN
        BY <1>1 DEF TypeOK
  <2>. QED  BY <2>1, <2>2, <2>3
<1>9. /\ mpc' \in Points /\ tries' \in Nat /\ tries' < Limit(mpc')
      /\ BandsInv' /\ AttachInv'
  <2>1. CASE mpc \in BootPoints
    <3>. DEFINE after == AfterBoot(ok, val)
    <3>0. mpc \notin AttachPoints \cup {"SIGNAL", "DETACH"}
          BY <2>1 DEF AttachPoints, BootPoints
    <3>1. mpc' = after[1] /\ tries' = after[2]
          BY <2>1, <3>0 DEF MainFinish
    <3>2. /\ after[1] \in BootPoints \cup {"REBOOT", "TOP"}
          /\ after[2] \in Nat /\ after[2] < Limit(after[1])
          /\ module = "BC95G" =>
               /\ after[1] \notin {"SETUP", "RESETUP", "PSM1", "PSM2"}
               /\ after[1] \in {"FWVER", "TOP"} => bands = "required"
          BY <1>6, <1>7, <2>1, BootFacts
    <3>. HIDE DEF after
    <3>3. /\ mpc' \in BootPoints \cup {"REBOOT", "TOP"}
          /\ module = "BC95G" =>
               /\ mpc' \notin {"SETUP", "RESETUP", "PSM1", "PSM2"}
               /\ mpc' \in {"FWVER", "TOP"} => bands = "required"
          BY <3>1, <3>2
    <3>4. BandsInv'
          BY <1>1, <3>3 DEF BandsInv, Running
    <3>5. AttachInv'
          BY <3>3 DEF AttachInv, BootPoints
    <3>. QED  BY <3>1, <3>2, <3>3, <3>4, <3>5 DEF Points, ExchangePoints
  <2>2. CASE mpc \in AttachPoints
    <3>. DEFINE after == AfterAttach(ok, val)
    <3>0. mpc \notin BootPoints \cup {"REBOOT", "SIGNAL", "DETACH"}
          BY <2>2 DEF AttachPoints, BootPoints
    <3>1. mpc' = after[1] /\ tries' = after[2]
          BY <2>2, <3>0 DEF MainFinish
    <3>2. mpc = "ATTACH" => c = "CGATT=1"
          BY DEF Command
    <3>3. /\ after[1] \in AttachPoints \cup {"UP"}
          /\ after[2] \in Nat /\ after[2] < Limit(after[1])
          /\ after[1] = "CHECK1" => failed = 0
          /\ after[1] = "ATTACH" =>
               /\ attached \/ misread \/ bad \/ failed = after[2]
               /\ failed <= after[2]
          /\ after[1] \in {"CHECK2", "CHECK3", "UP"} =>
               attached \/ misread \/ bad \/ failed = Tries
      <4>1. /\ val = "1" /\ ~bad => attached
            /\ mpc = "ATTACH" /\ ok /\ ~bad => attached
            BY <1>6, <2>2, <3>2
      <4>. HIDE DEF ok, val, bad
      <4>. QED  BY <1>1, <1>7, <2>2, <4>1, AttachFacts
    <3>. HIDE DEF after, bad
    <3>4. BandsInv'
      <4>1. mpc' \notin BootPoints /\ mpc' # "REBOOT"
            BY <3>1, <3>3 DEF AttachPoints, BootPoints
      <4>2. module = "BC95G" => bands # "none" /\ bands = "required"
            BY <3>0 DEF BandsInv, Running
      <4>. QED  BY <1>1, <4>1, <4>2 DEF BandsInv, BootPoints
    <3>5. AttachInv'
      <4>1. tries' + Sent' = tries'
            BY <1>3, <3>1, <3>3
      <4>. QED  BY <1>1, <3>1, <3>3, <4>1 DEF AttachInv
    <3>. QED  BY <3>1, <3>3, <3>4, <3>5 DEF Points, ExchangePoints
  <2>3. CASE mpc \in {"SIGNAL", "DETACH"}
    <3>0. mpc \notin BootPoints \cup AttachPoints /\ mpc # "REBOOT"
          BY <2>3 DEF AttachPoints, BootPoints
    <3>1. \/ mpc' = "TOP" /\ tries' = 0
          \/ mpc' = "SYNC" /\ tries' = 0
          \/ mpc' = "SIGNAL" /\ tries' = tries + 1 /\ tries' # SignalQueries
             /\ mpc = "SIGNAL"
      <4>1. CASE mpc = "SIGNAL"
            BY <3>0, <4>1 DEF MainFinish, AfterSignal, Go, Again, LastTry
      <4>2. CASE mpc = "DETACH"
            BY <3>0, <4>2 DEF MainFinish, Go
      <4>. QED  BY <2>3, <4>1, <4>2
    <3>2. BandsInv'
      <4>1. module = "BC95G" => bands # "none" /\ bands = "required"
            BY <3>0 DEF BandsInv, Running
      <4>. QED  BY <1>1, <3>1, <4>1 DEF BandsInv
    <3>3. AttachInv'
          BY <3>1 DEF AttachInv
    <3>4. tries' \in Nat /\ tries' < Limit(mpc')
          BY <3>1 DEF TriesInv, Limit, NetworkAssumption
    <3>. QED  BY <3>1, <3>2, <3>3, <3>4 DEF Points, ExchangePoints
  <2>. QED  BY <1>1, <2>1, <2>2, <2>3 DEF ExchangePoints
<1>. HIDE DEF c, ok, val, bad
<1>10. TriesInv' /\ tries' \in 0 .. Tries + BandTries + PsmTries + SignalQueries
  <2>1. {Tries, BandTries, PsmTries, SignalQueries} \subseteq Nat \ {0}
        BY DEF NetworkAssumption
  <2>2. Limit(mpc') <= Tries + BandTries + PsmTries + SignalQueries
        BY <2>1 DEF Limit
  <2>3. Limit(mpc') \in Nat
        BY <2>1 DEF Limit
  <2>. QED  BY <1>9, <2>1, <2>2, <2>3 DEF TriesInv
<1>11. TypeOK'
      BY <1>1, <1>4, <1>8, <1>9, <1>10 DEF TypeOK
<1>. QED  BY <1>3, <1>4, <1>5, <1>9, <1>10, <1>11

\* Steps of main between exchanges: the channel and the modem are left alone.
LEMMA BetweenInv ==
    ASSUME NetInv, ModemAssumption, NetworkAssumption,
           UNCHANGED <<holder, step, late, modemVars, module>>,
           rx' = rx \/ rx' = <<>>, faults' \in 0 .. MaxFaults,
           mpc \notin ExchangePoints, mpc' \in Points, tries' = tries,
           mpc' \in BootPoints \cup {"REBOOT"} => mpc' = "MODEL",
           mpc = "REBOOT" => mpc' = "MODEL",
           mpc' \in AttachPoints => mpc' = "CHECK1" /\ failed' = 0,
           {real', online', toNetConnect', toNetDisconnect', misread'}
               \subseteq BOOLEAN,
           server' \in 1 .. Servers + 1,
           ntp' \in Errors \cup {"REAL", "UNREAL", None},
           slow' \in 0 .. Enlargements, retry' \in 0 .. NtpRetries - 1,
           failed' \in 0 .. Tries,
           mpc' = "UP" => online'
    PROVE  NetInv'
<1>. USE DEF NetInv
<1>1. step["main"] = "begin" /\ step'["main"] = "begin" /\ tries = 0
      BY DEF TriesInv, Limit, ExchangePoints, BootPoints, AttachPoints
<1>2. /\ {Tries, BandTries, PsmTries, SignalQueries} \subseteq Nat \ {0}
      BY DEF NetworkAssumption
<1>3. /\ rx' \in Seq(Lines) /\ Paired(rx') /\ Paired(late')
      /\ \A i \in 1 .. Len(rx') : \E j \in 1 .. Len(rx) : rx'[i] = rx[j]
  <2>1. CASE rx' = rx
        BY <2>1 DEF LinesInv, TypeOK, ChannelTypeOK
  <2>2. CASE rx' = <<>>
        BY <2>2 DEF LinesInv, Paired
  <2>. QED  BY <2>1, <2>2
<1>4. LinesInv'
      BY <1>1, <1>3, KeptLines
<1>5. ChannelTypeOK'
      BY <1>3 DEF TypeOK, ChannelTypeOK, modemVars
<1>6. Exclusive'
      BY DEF Exclusive
<1>7. TriesInv' /\ tries' \in 0 .. Tries + BandTries + PsmTries + SignalQueries
  <2>1. tries' = 0 /\ Limit(mpc') \in Nat \ {0}
        BY <1>1, <1>2 DEF Limit
  <2>. QED  BY <1>2, <2>1 DEF TriesInv
<1>8. BandsInv'
  <2>1. CASE mpc = "REBOOT"
        BY <2>1 DEF BandsInv, Running, modemVars, BootPoints
  <2>2. CASE mpc # "REBOOT"
    <3>1. Running
          BY <2>2 DEF Running, ExchangePoints
    <3>. QED  BY <3>1 DEF BandsInv, modemVars, BootPoints
  <2>. QED  BY <2>1, <2>2
<1>9. AttachInv'
      BY DEF AttachInv, AttachPoints
<1>10. TypeOK'
      BY <1>5, <1>7 DEF TypeOK
<1>. QED  BY <1>1, <1>4, <1>6, <1>7, <1>8, <1>9, <1>10

LEMMA MainLoopInv ==
    ASSUME NetInv, ModemAssumption, NetworkAssumption,
           Reboot \/ MainTop \/ MainUp \/ MainDisc
    PROVE  NetInv'
<1>. DEFINE Same == UNCHANGED <<holder, step, late, attached, bands, module>>
<1>. USE DEF NetInv
<1>0. /\ TypeOK /\ tries \in Nat /\ {Tries, Servers, NtpRetries} \subseteq Nat
      /\ faults \in 0 .. MaxFaults /\ 0 \in 0 .. MaxFaults
      BY DEF TypeOK, ChannelTypeOK, TriesInv, NetworkAssumption,
             ModemAssumption
<1>1. CASE Reboot
  <2>1. tries = 0
        BY <1>1 DEF Reboot, TriesInv, Limit
  <2>2. /\ mpc = "REBOOT" /\ mpc' = "MODEL" /\ tries' = tries /\ rx' = <<>>
        /\ UNCHANGED <<holder, step, late, faults, modemVars, module, real,
                       online, toNetConnect, toNetDisconnect, server, ntp,
                       slow, retry, failed, misread>>
        BY <1>1, <2>1 DEF Reboot, requestVars, ntpVars, historyVars
  <2>3. /\ mpc \notin ExchangePoints /\ mpc' \in Points
        /\ mpc' \notin AttachPoints /\ mpc' # "UP"
        BY <2>2 DEF Points, ExchangePoints, BootPoints, AttachPoints
  <2>. QED  BY <1>0, <2>2, <2>3, BetweenInv DEF TypeOK
<1>2. CASE MainTop
  <2>1. /\ mpc = "TOP" /\ tries' = tries /\ rx' = rx
        /\ UNCHANGED <<holder, step, late, modemVars, module, real,
                       online, toNetConnect, toNetDisconnect, server, ntp,
                       slow, retry>>
        BY <1>2 DEF MainTop, requestVars, ntpVars
  <2>2. \/ mpc' = "CHECK1" /\ faults' = 0 /\ failed' = 0 /\ misread' = FALSE
        \/ mpc' = "UP" /\ online /\ UNCHANGED <<faults, failed, misread>>
        \/ mpc' = "DISC" /\ UNCHANGED <<faults, failed, misread>>
        BY <1>2 DEF MainTop, historyVars
  <2>3. /\ mpc \notin ExchangePoints /\ mpc' \in Points
        /\ mpc' \notin BootPoints \cup {"REBOOT"}
        /\ mpc' \in AttachPoints => mpc' = "CHECK1" /\ failed' = 0
        BY <2>1, <2>2 DEF Points, ExchangePoints, BootPoints, AttachPoints
  <2>4. /\ failed' \in 0 .. Tries /\ faults' \in 0 .. MaxFaults
        BY <1>0, <2>2 DEF TypeOK
  <2>5. misread' \in BOOLEAN
    <3>1. misread \in BOOLEAN
          BY DEF TypeOK
    <3>2. misread' = FALSE \/ misread' = misread
          BY <2>2, Zenon
    <3>. QED  BY <3>1, <3>2, Zenon
  <2>6. {real', online', toNetConnect', toNetDisconnect', misread'}
            \subseteq BOOLEAN
        BY <2>1, <2>5 DEF TypeOK
  <2>7. mpc' = "UP" => online'
        BY <2>1, <2>2
  <2>. QED  BY <1>0, <2>1, <2>3, <2>4, <2>6, <2>7, BetweenInv DEF TypeOK
<1>3. CASE MainDisc
  <2>1. /\ mpc = "DISC" /\ tries' = tries /\ rx' = rx
        /\ mpc' = "DETACH" \/ mpc' = "TOP"
        /\ UNCHANGED <<holder, step, late, faults, modemVars, module, real,
                       online, toNetConnect, toNetDisconnect, server, ntp,
                       slow, retry, failed, misread>>
        BY <1>3 DEF MainDisc, channelVars, requestVars, ntpVars, historyVars
  <2>2. /\ mpc \notin ExchangePoints /\ mpc' \in Points /\ mpc' # "UP"
        /\ mpc' \notin BootPoints \cup {"REBOOT"} \cup AttachPoints
        BY <2>1 DEF Points, ExchangePoints, BootPoints, AttachPoints
  <2>. QED  BY <1>0, <2>1, <2>2, BetweenInv DEF TypeOK
<1>4. CASE MainUp
  <2>1. /\ mpc = "UP" /\ tries' = tries /\ rx' = rx
        /\ mpc' = "DISC" \/ mpc' = "SIGNAL"
        /\ toNetConnect' = (toNetConnect /\ ~toNetDisconnect)
        /\ UNCHANGED <<holder, step, late, faults, modemVars, module, real,
                       online, toNetDisconnect, server, ntp,
                       slow, retry, failed, misread>>
        BY <1>4 DEF MainUp, channelVars, ntpVars, historyVars
  <2>2. /\ mpc \notin ExchangePoints /\ mpc' \in Points /\ mpc' # "UP"
        /\ mpc' \notin BootPoints \cup {"REBOOT"} \cup AttachPoints
        BY <2>1 DEF Points, ExchangePoints, BootPoints, AttachPoints
  <2>3. toNetConnect' \in BOOLEAN
        BY <2>1
  <2>4. {real', online', toNetConnect', toNetDisconnect', misread'}
            \subseteq BOOLEAN
        BY <2>1, <2>3 DEF TypeOK
  <2>. QED  BY <1>0, <2>1, <2>2, <2>4, BetweenInv DEF TypeOK
<1>. QED  BY <1>1, <1>2, <1>3, <1>4

LEMMA SyncInv ==
    ASSUME NetInv, ModemAssumption, NetworkAssumption,
           SyncTop \/ AskServer \/ SyncResult
    PROVE  NetInv'
<1>. USE DEF NetInv
<1>0. /\ {Tries, Servers, NtpRetries} \subseteq Nat \ {0}
      /\ Enlargements \in Nat /\ retry \in 0 .. NtpRetries - 1
      /\ slow \in 0 .. Enlargements /\ server \in 1 .. Servers + 1
      /\ ntp \in Errors \cup {"REAL", "UNREAL", None}
      BY DEF TypeOK, NetworkAssumption
<1>1. /\ UNCHANGED <<holder, step, rx, late, faults, modemVars, module, tries,
                     toNetDisconnect, failed, misread>>
      /\ mpc \in {"SYNC", "ASK"} /\ mpc' \in {"SYNC", "ASK", "DISC"}
      BY DEF SyncTop, AskServer, SyncResult, SyncReturns, channelVars,
             mainVars, requestVars, historyVars
<1>2. /\ server' \in 1 .. Servers + 1
      /\ ntp' \in Errors \cup {"REAL", "UNREAL", None}
      /\ slow' \in 0 .. Enlargements /\ retry' \in 0 .. NtpRetries - 1
  <2>1. CASE SyncTop
        BY <1>0, <2>1 DEF SyncTop, SyncReturns
  <2>2. CASE AskServer
        BY <1>0, <2>2 DEF AskServer
  <2>3. CASE SyncResult
    <3>1. CASE SyncReturns
          BY <1>0, <3>1 DEF SyncReturns
    <3>2. CASE ~SyncReturns
      <4>1. /\ ~GivesUp /\ UNCHANGED <<server, ntp>>
            /\ slow' = IF ntp = "WOULD_BLOCK" /\ slow < Enlargements
                         THEN slow + 1 ELSE slow
            /\ retry' = IF Counted THEN retry + 1 ELSE retry
            BY <2>3, <3>2 DEF SyncResult
      <4>2. Counted => retry + 1 # NtpRetries
            BY <4>1 DEF GivesUp
      <4>. QED  BY <1>0, <4>1, <4>2
    <3>. QED  BY <3>1, <3>2
  <2>. QED  BY <2>1, <2>2, <2>3
<1>3. real' \in BOOLEAN /\ online' \in BOOLEAN /\ toNetConnect' \in BOOLEAN
  <2>1. real \in BOOLEAN /\ online \in BOOLEAN /\ toNetConnect \in BOOLEAN
        BY DEF TypeOK
  <2>2. /\ real' = real \/ real' = (ntp = "REAL")
        /\ online' = online \/ online' = (online \/ ~toNetDisconnect)
        /\ toNetConnect' = toNetConnect \/ toNetConnect' = FALSE
    <3>1. CASE SyncTop
          BY <3>1, Zenon DEF SyncTop, SyncReturns
    <3>2. CASE AskServer
          BY <3>2, Zenon DEF AskServer, mainVars, requestVars
    <3>3. CASE SyncResult
          BY <3>3, Zenon DEF SyncResult, SyncReturns
    <3>. QED  BY <3>1, <3>2, <3>3, Zenon
  <2>. QED  BY <2>1, <2>2, Zenon
<1>4. {real', online', toNetConnect', toNetDisconnect', misread'}
          \subseteq BOOLEAN
      BY <1>1, <1>3 DEF TypeOK
<1>5. /\ mpc \notin ExchangePoints /\ mpc' \in Points /\ mpc' # "UP"
      /\ mpc # "REBOOT"
      /\ mpc' \notin BootPoints \cup {"REBOOT"} \cup AttachPoints
      BY <1>1 DEF Points, ExchangePoints, BootPoints, AttachPoints
<1>6. faults' \in 0 .. MaxFaults /\ failed' \in 0 .. Tries
      BY <1>1 DEF TypeOK, ChannelTypeOK
<1>. QED  BY <1>1, <1>2, <1>4, <1>5, <1>6, BetweenInv

LEMMA AppRequestsInv ==
    ASSUME NetInv, ModemAssumption, NetworkAssumption, AppRequests
    PROVE  NetInv'
<1>. USE DEF NetInv
<1>1. UNCHANGED <<holder, step, rx, late, faults, attached, bands, module, mpc,
                  tries, real, online, server, ntp, slow, retry, failed,
                  misread>>
      BY DEF AppRequests, channelVars, modemVars, mainVars, ntpVars,
             historyVars
<1>2. toNetConnect' \in BOOLEAN /\ toNetDisconnect' \in BOOLEAN
  <2>1. toNetConnect \in BOOLEAN /\ toNetDisconnect \in BOOLEAN
        BY DEF TypeOK
  <2>2. /\ toNetConnect' = toNetConnect \/ toNetConnect' = TRUE
        /\ toNetDisconnect' = toNetDisconnect \/ toNetDisconnect' = TRUE
        BY Zenon DEF AppRequests
  <2>. QED  BY <2>1, <2>2, Zenon
<1>3. TypeOK'
      BY <1>1, <1>2 DEF TypeOK, ChannelTypeOK
<1>4. LinesInv' /\ Exclusive'
      BY <1>1 DEF LinesInv, Tells, Answers, Exclusive
<1>5. TriesInv' /\ BandsInv' /\ AttachInv'
      BY <1>1 DEF TriesInv, BandsInv, AttachInv, Running, Sent
<1>. QED  BY <1>1, <1>3, <1>4, <1>5

LEMMA AppExchangeInv ==
    ASSUME NetInv, ModemAssumption, NetworkAssumption, AppExchange
    PROVE  NetInv'
<1>. USE DEF NetInv
<1>0. UNCHANGED <<module, mpc, tries, real, online, toNetConnect,
                  toNetDisconnect, server, ntp, slow, retry, failed, misread>>
      BY DEF AppExchange, mainVars, requestVars, ntpVars, historyVars
<1>1. /\ "app" \in Threads /\ "main" \in Threads /\ "app" # "main"
      /\ None \notin Threads /\ "INFO" \in Commands
      /\ step \in [Threads -> {"begin", "flushed", "locked", "sent"}]
      BY DEF NetworkAssumption, ModemAssumption, Commands, Queries, TypeOK,
             ChannelTypeOK
<1>2. CASE Lock("app")
      BY <1>1, <1>2, LockInv DEF AppExchange
<1>3. CASE Send("app", "INFO")
  <2>1. /\ step["app"] = "locked" /\ holder' = holder
        /\ step' = [step EXCEPT !["app"] = "sent"]
        BY <1>3 DEF Send
  <2>2. step'["main"] = step["main"] /\ step["main"] # "sent"
    <3>1. holder = "app"
          BY <1>1, <2>1 DEF Exclusive
    <3>. QED  BY <1>1, <2>1, <3>1 DEF Exclusive
  <2>3. /\ ChannelTypeOK' /\ LinesInv'
        /\ bands = "required" => bands' = "required"
        /\ bands # "none" => bands' # "none"
        /\ attached => attached'
        BY <1>1, <1>3, <2>2, SendLines DEF TypeOK
  <2>4. TypeOK'
        BY <1>0, <2>3 DEF TypeOK
  <2>5. Exclusive'
        BY <1>1, <2>1 DEF Exclusive
  <2>6. Sent' = Sent
        BY <2>2 DEF Sent
  <2>7. TriesInv' /\ BandsInv' /\ AttachInv'
        BY <1>0, <2>3, <2>6 DEF TriesInv, BandsInv, AttachInv, Running
  <2>. QED  BY <1>0, <2>2, <2>3, <2>4, <2>5, <2>7
<1>4. CASE Finish("app", "INFO", TRUE) /\ faults' = faults
  <2>1. /\ step["app"] = "sent" /\ holder' = None
        /\ step' = [step EXCEPT !["app"] = "begin"]
        /\ UNCHANGED <<attached, bands>>
        BY <1>4 DEF Finish, modemVars
  <2>2. step'["main"] = step["main"]
        BY <1>1, <2>1
  <2>3. ChannelTypeOK' /\ LinesInv'
        BY <1>0, <1>1, <1>4, <2>2, FinishLines DEF TypeOK
  <2>4. TypeOK'
        BY <1>0, <2>3 DEF TypeOK
  <2>5. Exclusive'
        BY <1>1, <2>1 DEF Exclusive
  <2>6. Sent' = Sent
        BY <2>2 DEF Sent
  <2>7. TriesInv' /\ BandsInv' /\ AttachInv'
        BY <1>0, <2>1, <2>6 DEF TriesInv, BandsInv, AttachInv, Running
  <2>. QED  BY <1>0, <2>2, <2>3, <2>4, <2>5, <2>7
<1>. QED  BY <1>2, <1>3, <1>4 DEF AppExchange

LEMMA LateReplyInv ==
    ASSUME NetInv, ModemAssumption, NetworkAssumption, LateReply,
           UNCHANGED <<mainVars, requestVars, ntpVars, historyVars>>
    PROVE  NetInv'
<1>. USE DEF NetInv
<1>1. UNCHANGED <<module, mpc, tries, real, online, toNetConnect,
                  toNetDisconnect, server, ntp, slow, retry, failed, misread,
                  holder, step, attached, bands>>
      BY DEF mainVars, requestVars, ntpVars, historyVars, LateReply, modemVars
<1>2. ChannelTypeOK' /\ LinesInv'
      BY <1>1, LateLines DEF TypeOK
<1>3. TypeOK'
      BY <1>1, <1>2 DEF TypeOK
<1>4. Exclusive' /\ TriesInv' /\ BandsInv' /\ AttachInv'
      BY <1>1 DEF Exclusive, TriesInv, BandsInv, AttachInv, Running, Sent
<1>. QED  BY <1>1, <1>2, <1>3, <1>4

LEMMA StepInv ==
    ASSUME NetInv, ModemAssumption, NetworkAssumption, [Next]_vars
    PROVE  NetInv'
<1>0. "main" \in Threads /\ "app" \in Threads /\ "app" # "main"
      BY DEF NetworkAssumption
<1>1. CASE MainFlush
      BY <1>0, <1>1, FlushInv DEF MainFlush
<1>2. CASE MainLock
      BY <1>0, <1>2, LockInv DEF MainLock
<1>3. CASE MainSend
      BY <1>3, MainSendInv
<1>4. CASE MainFinish
      BY <1>4, MainFinishInv
<1>5. CASE Reboot \/ MainTop \/ MainUp \/ MainDisc
      BY <1>5, MainLoopInv
<1>6. CASE SyncTop \/ AskServer \/ SyncResult
      BY <1>6, SyncInv
<1>7. CASE AppRequests
      BY <1>7, AppRequestsInv
<1>8. CASE AppFlush
      BY <1>0, <1>8, FlushInv DEF AppFlush
<1>9. CASE AppExchange
      BY <1>9, AppExchangeInv
<1>10. CASE /\ LateReply
            /\ UNCHANGED <<mainVars, requestVars, ntpVars, historyVars>>
      BY <1>10, LateReplyInv
<1>11. CASE UNCHANGED vars
  <2>1. UNCHANGED <<module, mpc, tries, real, online, toNetConnect,
                    toNetDisconnect, server, ntp, slow, retry, failed, misread,
                    holder, step, rx, late, faults, attached, bands>>
        BY <1>11 DEF vars, channelVars, modemVars, mainVars, requestVars,
                     ntpVars, historyVars
  <2>2. TypeOK' /\ LinesInv' /\ Exclusive'
        BY <2>1 DEF NetInv, TypeOK, ChannelTypeOK, LinesInv, Tells, Answers,
                    Exclusive
  <2>3. TriesInv' /\ BandsInv' /\ AttachInv'
        BY <2>1 DEF NetInv, TriesInv, BandsInv, AttachInv, Running, Sent
  <2>. QED  BY <2>1, <2>2, <2>3 DEF NetInv
<1>. QED  BY <1>1, <1>2, <1>3, <1>4, <1>5, <1>6, <1>7, <1>8, <1>9, <1>10,
             <1>11 DEF Next, Main

LEMMA InitInv ==
    ASSUME Init, ModemAssumption, NetworkAssumption
    PROVE  NetInv
<1>. USE DEF Init, ChannelInit, RamInit
<1>1. /\ {Tries, BandTries, PsmTries, SignalQueries, Servers, NtpRetries}
            \subseteq Nat \ {0}
      /\ Enlargements \in Nat /\ MaxFaults \in Nat /\ None \notin Threads
      BY DEF ModemAssumption, NetworkAssumption
<1>2. rx \in Seq(Lines) /\ late \in Seq(Lines) /\ Len(rx) = 0 /\ Len(late) = 0
      OBVIOUS
<1>3. ChannelTypeOK
      BY <1>1, <1>2 DEF ChannelTypeOK
<1>4. /\ real \in BOOLEAN /\ online \in BOOLEAN /\ toNetConnect \in BOOLEAN
      /\ toNetDisconnect \in BOOLEAN /\ misread \in BOOLEAN
      OBVIOUS
<1>5. TypeOK
      BY <1>1, <1>3, <1>4 DEF TypeOK, Points, ExchangePoints, BootPoints
<1>6. LinesInv
      BY <1>2 DEF LinesInv, Paired
<1>7. Exclusive
      BY <1>1 DEF Exclusive
<1>8. TriesInv
      BY <1>1 DEF TriesInv, Limit
<1>9. BandsInv
      BY DEF BandsInv, Running, BootPoints
<1>10. AttachInv
      BY DEF AttachInv
<1>11. step["main"] = "begin"
      BY DEF NetworkAssumption
<1>. QED  BY <1>5, <1>6, <1>7, <1>8, <1>9, <1>10, <1>11 DEF NetInv

\* The exchanges, the counters of tries and the modem agree at every step.
THEOREM NetworkInvariant == Spec => []NetInv
<1>1. Init => NetInv
      BY InitInv, ModemAssumption, NetworkAssumption
<1>2. NetInv /\ [Next]_vars => NetInv'
      BY StepInv, ModemAssumption, NetworkAssumption
<1>. QED  BY <1>1, <1>2, PTL DEF Spec

\* The counters of tries, of the time servers and of the faults keep their
\* limits, and the channel carries lines only.
THEOREM TypeCorrect == Spec => []TypeOK
<1>1. NetInv => TypeOK
      BY DEF NetInv
<1>. QED  BY <1>1, NetworkInvariant, PTL

\* CellularExt_PreInitModule: a BC95-G gets on line with the required bands
\* only, whatever the modem refuses, does not hear or answers late.
THEOREM BandsAreChecked == Spec => []BandsChecked
<1>1. NetInv => BandsChecked
      BY DEF NetInv, BandsInv, BandsChecked
<1>. QED  BY <1>1, NetworkInvariant, PTL

\* CellularExt_Attach returns with the modem attached, or after Tries failures
\* of AT+CGATT=1, or having taken the reply of another exchange for its own.
THEOREM AttachWorks == Spec => []AttachTakesEffect
<1>1. NetInv => AttachTakesEffect
      BY DEF NetInv, AttachInv, AttachTakesEffect
<1>. QED  BY <1>1, NetworkInvariant, PTL
=============================================================================

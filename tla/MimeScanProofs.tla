--------------------------- MODULE MimeScanProofs ---------------------------
(***************************************************************************)
(* What MimeScan promises of a message, proved for any limits.             *)
(***************************************************************************)
EXTENDS MimeScan, TLAPS

\* While the walk goes on, nothing has been decided, the files are those of
\* the PDFs taken, and each of them came up before what the walk looks at now.
WalkInv ==
  Walking =>
    /\ result = "none" /\ reply = "none"
    /\ parts <= MaxParts
    /\ at = "container" => open # << >>
    /\ files = sent /\ ToSet(pdfs) = sent
    /\ \A n \in sent : n <= parts /\ (at = "entity" => n < parts)

\* Once Extract is back: its files, and what made it say "no attachments".
ExtractInv ==
  at = "extracted" =>
    /\ result # "none" /\ reply = "none"
    /\ result = "scan" => files = sent /\ ToSet(pdfs) = sent
    /\ result # "scan" => files = {}
    /\ result = "no_attachments" => plainText

\* Once the printer has its answer.
AnswerInv ==
  at = "answered" =>
    /\ reply = "dropped" => plainText /\ ~readFailed
    /\ reply = "scan" => files = sent /\ ~readFailed

Increasing == \A k, n \in DOMAIN pdfs : k < n => pdfs[k] < pdfs[n]

\* What the flag stands for.
PlainInv == plainText => clues \subseteq {"unreadable_part"}

ScanInv ==
  /\ ScanTypeOK
  /\ WalkInv
  /\ ExtractInv
  /\ AnswerInv
  /\ Increasing
  /\ PlainInv

-----------------------------------------------------------------------------
LEMMA ToSetAppend ==
  ASSUME NEW s \in Seq(Nat), NEW x \in Nat
  PROVE  ToSet(Append(s, x)) = ToSet(s) \cup {x}
<1> DEFINE t == Append(s, x)
<1>1. /\ DOMAIN s = 1..Len(s) /\ DOMAIN t = 1..Len(s) + 1 /\ Len(s) \in Nat
      /\ t[Len(s) + 1] = x
      /\ \A k \in 1..Len(s) : t[k] = s[k]
  OBVIOUS
<1>2. ASSUME NEW y \in ToSet(t)
      PROVE  y \in ToSet(s) \cup {x}
  <2>1. PICK k \in DOMAIN t : y = t[k]
    BY <1>2 DEF ToSet
  <2>2. CASE k = Len(s) + 1
    BY <1>1, <2>1, <2>2
  <2>3. CASE k \in 1..Len(s)
    BY <1>1, <2>1, <2>3 DEF ToSet
  <2> QED BY <1>1, <2>1, <2>2, <2>3
<1>3. ASSUME NEW y \in ToSet(s) \cup {x}
      PROVE  y \in ToSet(t)
  <2>1. CASE y = x
    <3>1. Len(s) + 1 \in DOMAIN t
      BY <1>1
    <3> QED BY <1>1, <2>1, <3>1 DEF ToSet
  <2>2. CASE y \in ToSet(s)
    <3>1. PICK k \in 1..Len(s) : y = s[k]
      BY <1>1, <2>2 DEF ToSet
    <3>2. k \in DOMAIN t
      BY <1>1
    <3> QED BY <1>1, <3>1, <3>2 DEF ToSet
  <2> QED BY <1>3, <2>1, <2>2
<1> QED BY <1>2, <1>3

LEMMA EmptySequence ==
  /\ << >> \in Seq(Nat) /\ Len(<< >>) = 0
  /\ ToSet(<< >>) = {}
BY DEF ToSet

LEMMA AppendLengthens ==
  ASSUME NEW s \in Seq(Nat), NEW x \in Nat
  PROVE  /\ Append(s, x) \in Seq(Nat) /\ Append(s, x) # << >>
         /\ Len(Append(s, x)) = Len(s) + 1
<1>1. Append(s, x) \in Seq(Nat) /\ Len(Append(s, x)) = Len(s) + 1 /\ Len(s) \in Nat
  OBVIOUS
<1>2. Len(Append(s, x)) # Len(<< >>)
  BY <1>1, EmptySequence
<1> QED BY <1>1, <1>2

LEMMA FrontShortens ==
  ASSUME NEW s \in Seq(Nat), s # << >>
  PROVE  Front(s) \in Seq(Nat) /\ Len(Front(s)) < Len(s)
BY DEF Front

\* The constants, as the proofs use them.
LEMMA Limits == MaxParts \in Nat /\ MaxDepth \in Nat /\ MaxPDFs \in Nat \ {0}
BY LimitsAssumption DEF LimitsAssumption

-----------------------------------------------------------------------------
LEMMA ScanStarts == ScanInit => ScanInv
<1> SUFFICES ASSUME ScanInit PROVE ScanInv
  OBVIOUS
<1> USE EmptySequence, Limits DEF ScanInit
<1>1. at \in Place /\ open \in Seq(Nat) /\ Len(open) <= MaxDepth + 1 /\ parts \in 0..MaxParts + 1
  BY DEF Place
<1>2. /\ plainText \in BOOLEAN /\ readFailed \in BOOLEAN
      /\ pdfs \in Seq(Nat) /\ files \subseteq 0..MaxParts
  OBVIOUS
<1>3. result \in Result /\ reply \in Reply /\ sent \subseteq 0..MaxParts /\ clues \subseteq Clue
  BY DEF Result, Reply, Clue
<1>4. ScanTypeOK
  BY <1>1, <1>2, <1>3 DEF ScanTypeOK
<1>5. WalkInv
  BY DEF WalkInv, Walking
<1>6. ExtractInv /\ AnswerInv /\ PlainInv
  BY DEF ExtractInv, AnswerInv, PlainInv
<1>7. Increasing
  BY DEF Increasing
<1> QED BY <1>4, <1>5, <1>6, <1>7 DEF ScanInv

-----------------------------------------------------------------------------
\* A step that ends Extract with an error leaves nothing to prove but types.
LEMMA Failing ==
  ASSUME ScanInv, Walking,
         at' = "extracted", files' = {}, result' \in {"no_pdf", "too_complex", "storage"},
         UNCHANGED <<pdfs, readFailed, reply>>,
         open' \in Seq(Nat), Len(open') <= MaxDepth + 1, parts' \in 0..MaxParts + 1,
         plainText' \in BOOLEAN, clues' \subseteq Clue, sent' \subseteq 0..MaxParts, PlainInv'
  PROVE  ScanInv'
<1>1. ScanTypeOK'
  <2>1. result' \in Result /\ at' \in Place /\ files' \subseteq 0..MaxParts
    BY DEF Result, Place
  <2> QED BY <2>1, Zenon DEF ScanInv, ScanTypeOK
<1>2. WalkInv' /\ AnswerInv'
  BY DEF WalkInv, Walking, AnswerInv
<1>3. ExtractInv'
  BY DEF ScanInv, WalkInv, Walking, ExtractInv
<1>4. Increasing'
  BY DEF ScanInv, Increasing
<1> QED BY <1>1, <1>2, <1>3, <1>4 DEF ScanInv

\* A step at whose end walk returns.
LEMMA Returning ==
  ASSUME ScanInv, Walking, UNCHANGED <<parts, readFailed, reply>>, 
         open' \in Seq(Nat), Len(open') <= MaxDepth + 1,
         plainText' \in BOOLEAN, clues' \subseteq Clue, sent' \subseteq 0..MaxParts,
         pdfs' \in Seq(Nat), files' = sent', ToSet(pdfs') = sent', 
         \A n \in sent' : n <= parts, Increasing', PlainInv',
         NEW plain \in BOOLEAN, plain => plainText',
         WalkReturns(open', pdfs', plain)
  PROVE  ScanInv'
<1>1. result = "none" /\ reply = "none" /\ parts <= MaxParts
  BY DEF ScanInv, WalkInv
<1>2. CASE open' = << >>
  <2>1. /\ at' = "extracted"
        /\ result' = IF pdfs' # << >> THEN "scan"
                     ELSE IF plain THEN "no_attachments" ELSE "no_pdf"
    BY <1>2 DEF WalkReturns, ExtractEnds
  <2>2. result' \in Result /\ result' # "none"
    BY <2>1 DEF Result
  <2>3. ScanTypeOK'
    BY <2>1, <2>2, Zenon DEF ScanInv, ScanTypeOK, Place
  <2>4. WalkInv' /\ AnswerInv'
    BY <2>1 DEF WalkInv, Walking, AnswerInv
  <2>5. ExtractInv'
    <3>1. result' # "scan" => files' = {}
      BY <2>1, EmptySequence
    <3>2. result' = "no_attachments" => plainText'
      BY <2>1
    <3> QED BY <1>1, <2>1, <2>2, <3>1, <3>2 DEF ExtractInv
  <2> QED BY <2>3, <2>4, <2>5 DEF ScanInv
<1>3. CASE open' # << >>
  <2>1. at' = "container" /\ result' = result
    BY <1>3 DEF WalkReturns
  <2>2. ScanTypeOK'
    BY <2>1, Zenon DEF ScanInv, ScanTypeOK, Place
  <2>3. WalkInv'
    BY <1>1, <1>3, <2>1 DEF WalkInv, Walking
  <2>4. ExtractInv' /\ AnswerInv'
    BY <2>1 DEF ExtractInv, AnswerInv
  <2> QED BY <2>2, <2>3, <2>4 DEF ScanInv
<1> QED BY <1>2, <1>3

\* What holds while the walk goes on, in one place.
LEMMA WhileWalking ==
  ASSUME ScanInv, Walking
  PROVE  /\ open \in Seq(Nat) /\ Len(open) <= MaxDepth + 1
         /\ parts \in 0..MaxParts /\ plainText \in BOOLEAN /\ pdfs \in Seq(Nat)
         /\ clues \subseteq Clue /\ sent \subseteq 0..MaxParts
         /\ result = "none" /\ reply = "none"
         /\ files = sent /\ ToSet(pdfs) = sent /\ Increasing /\ PlainInv
         /\ \A n \in sent : n <= parts /\ (at = "entity" => n < parts)
         /\ at = "container" => open # << >>
BY Limits DEF ScanInv, ScanTypeOK, WalkInv

LEMMA LeafKeeps ==
  ASSUME ScanInv, NEW entity \in Entity, Leaf(entity)
  PROVE  ScanInv'
<1>1. /\ at = "entity" /\ Walking /\ ~TooDeep
      /\ plainText' = (plainText /\ KeepsPlain(entity))
      /\ clues' = clues \cup GivesAway(entity)
      /\ UNCHANGED <<open, parts, readFailed, reply>>
  BY DEF Leaf, Walking
<1>2. PlainInv' /\ plainText' \in BOOLEAN /\ clues' \subseteq Clue
  <2>1. GivesAway(entity) \subseteq Clue
    BY DEF GivesAway, Clue
  <2>2. KeepsPlain(entity) => GivesAway(entity) \subseteq {"unreadable_part"}
    BY DEF GivesAway, KeepsPlain
  <2>3. plainText' \in BOOLEAN
    BY <1>1, WhileWalking DEF KeepsPlain, Entity
  <2>4. plainText' => plainText /\ KeepsPlain(entity)
    BY <1>1
  <2> QED BY <1>1, <2>1, <2>2, <2>3, <2>4, WhileWalking DEF PlainInv
<1>3. CASE SkipLeaf(entity)
  <2>1. UNCHANGED <<pdfs, files, sent>> /\ WalkReturns(open', pdfs', plainText')
    BY <1>1, <1>3 DEF SkipLeaf
  <2>2. Increasing'
    BY <1>1, <2>1, WhileWalking DEF Increasing
  <2> QED BY <1>1, <1>2, <2>1, <2>2, WhileWalking, Returning
<1>4. CASE StoreLeaf(entity)
  <2>1. sent' = (IF entity.reads = "whole" THEN sent \cup {parts} ELSE sent)
        /\ sent' \subseteq 0..MaxParts
    BY <1>1, <1>4, WhileWalking DEF StoreLeaf
  <2>2. parts' \in 0..MaxParts + 1 /\ open' \in Seq(Nat) /\ Len(open') <= MaxDepth + 1
    BY <1>1, WhileWalking, Limits
  <2>3. CASE (ExtractFails("too_complex") \/ ExtractFails("storage")) /\ UNCHANGED pdfs
    BY <1>1, <1>2, <2>1, <2>2, <2>3, Failing DEF ExtractFails
  <2>4. CASE /\ entity.reads = "whole" /\ files' = files \cup {parts}
             /\ pdfs' = Append(pdfs, parts)
             /\ WalkReturns(open', pdfs', plainText')
    <3>1. /\ parts \in Nat /\ pdfs \in Seq(Nat) /\ ToSet(pdfs) = sent
          /\ \A n \in sent : n < parts
      BY <1>1, WhileWalking
    <3>2. pdfs' \in Seq(Nat) /\ ToSet(pdfs') = sent' /\ files' = sent'
      BY <1>1, <2>1, <2>4, <3>1, WhileWalking, ToSetAppend, AppendLengthens
    <3>3. Increasing'
      <4>1. \A k \in DOMAIN pdfs : pdfs[k] < parts
        BY <3>1 DEF ToSet
      <4>2. \A k, n \in DOMAIN pdfs : k < n => pdfs[k] < pdfs[n]
        BY <1>1, WhileWalking DEF Increasing
      <4> QED BY <2>4, <3>1, <4>1, <4>2 DEF Increasing
    <3>4. \A n \in sent' : n <= parts
      BY <2>1, <3>1
    <3> QED BY <1>1, <1>2, <2>1, <2>4, <3>2, <3>3, <3>4, WhileWalking, Returning
  <2>5. CASE /\ entity.reads # "whole" /\ RejectFile
             /\ WalkReturns(open', pdfs', plainText')
    <3>1. UNCHANGED <<pdfs, files, sent>>
      BY <2>1, <2>5 DEF RejectFile
    <3>2. Increasing'
      BY <1>1, <3>1, WhileWalking DEF Increasing
    <3> QED BY <1>1, <1>2, <2>5, <3>1, <3>2, WhileWalking, Returning
  <2> QED BY <1>1, <1>4, <2>3, <2>4, <2>5 DEF StoreLeaf
<1> QED BY <1>3, <1>4 DEF Leaf

LEMMA EndContainerKeeps ==
  ASSUME ScanInv, NEW clean \in BOOLEAN, EndContainer(clean)
  PROVE  ScanInv'
<1>1. Walking /\ at = "container" /\ open # << >>
  BY WhileWalking DEF EndContainer, Walking
<1>2. open' \in Seq(Nat) /\ Len(open') <= MaxDepth + 1
  <2>1. open' = Front(open)
    BY DEF EndContainer
  <2>2. Len(open') < Len(open) /\ open' \in Seq(Nat) /\ Len(open) \in Nat /\ Len(open') \in Nat
    BY <1>1, <2>1, WhileWalking, FrontShortens
  <2> QED BY <1>1, <2>2, WhileWalking, Limits
<1>3. UNCHANGED <<parts, pdfs, files, readFailed, reply, sent>>
  BY DEF EndContainer
<1>4. Increasing'
  BY <1>1, <1>3, WhileWalking DEF Increasing
<1>5. plainText' \in BOOLEAN /\ clues' \subseteq Clue /\ PlainInv'
  <2>1. /\ plainText' = (plainText /\ ~Suspicious(clean))
        /\ clues' = IF clean /\ Last(open) > 0 THEN clues ELSE clues \cup {"unreached_part"}
    BY DEF EndContainer
  <2>2. ~Suspicious(clean) => clean /\ Last(open) > 0
    BY <1>1, WhileWalking DEF Suspicious, Last
  <2> QED BY <1>1, <2>1, <2>2, WhileWalking DEF PlainInv, Clue
<1>6. WalkReturns(open', pdfs', plainText')
  BY <1>3 DEF EndContainer, WalkReturns, ExtractEnds
<1> QED BY <1>1, <1>2, <1>3, <1>4, <1>5, <1>6, WhileWalking, Returning

LEMMA NoMessageKeeps ==
  ASSUME ScanInv, NoMessage
  PROVE  ScanInv'
<1>1. /\ Walking /\ at' = "extracted" /\ files' = {} /\ result' = "no_pdf"
      /\ UNCHANGED <<open, parts, plainText, pdfs, readFailed, reply, sent, clues>>
  BY DEF NoMessage, ExtractFails, Walking
<1>2. PlainInv'
  BY <1>1, WhileWalking DEF PlainInv
<1>3. /\ parts' \in 0..MaxParts + 1 /\ open' \in Seq(Nat) /\ Len(open') <= MaxDepth + 1
      /\ plainText' \in BOOLEAN /\ clues' \subseteq Clue /\ sent' \subseteq 0..MaxParts
  BY <1>1, WhileWalking, Limits
<1>4. result' \in {"no_pdf", "too_complex", "storage"} /\ UNCHANGED <<pdfs, readFailed, reply>>
  BY <1>1
<1> QED BY <1>1, <1>2, <1>3, <1>4, Failing, Zenon

LEMMA DeepEntityKeeps ==
  ASSUME ScanInv, DeepEntity
  PROVE  ScanInv'
<1>1. /\ Walking /\ at' = "extracted" /\ files' = {} /\ result' = "too_complex"
      /\ UNCHANGED <<open, parts, plainText, pdfs, readFailed, reply, sent, clues>>
  BY DEF DeepEntity, ExtractFails, Walking
<1>2. PlainInv'
  BY <1>1, WhileWalking DEF PlainInv
<1>3. /\ parts' \in 0..MaxParts + 1 /\ open' \in Seq(Nat) /\ Len(open') <= MaxDepth + 1
      /\ plainText' \in BOOLEAN /\ clues' \subseteq Clue /\ sent' \subseteq 0..MaxParts
  BY <1>1, WhileWalking, Limits
<1>4. result' \in {"no_pdf", "too_complex", "storage"} /\ UNCHANGED <<pdfs, readFailed, reply>>
  BY <1>1
<1> QED BY <1>1, <1>2, <1>3, <1>4, Failing, Zenon

LEMMA OpenContainerKeeps ==
  ASSUME ScanInv, OpenContainer
  PROVE  ScanInv'
<1>1. /\ Walking /\ at' = "container"
      /\ UNCHANGED <<parts, plainText, pdfs, files, readFailed, result, reply, sent, clues>>
  BY DEF OpenContainer, Walking
<1>2. open' \in Seq(Nat) /\ open' # << >> /\ Len(open') <= MaxDepth + 1
  <2>1. open' = Append(open, 0) /\ Len(open) \in Nat /\ Len(open) <= MaxDepth
    BY <1>1, WhileWalking, Limits DEF OpenContainer, TooDeep
  <2> QED BY <1>1, <2>1, WhileWalking, AppendLengthens, Limits
<1>3. ScanTypeOK'
  BY <1>1, <1>2, Zenon DEF ScanInv, ScanTypeOK, Place
<1>4. WalkInv'
  BY <1>1, <1>2, WhileWalking DEF WalkInv, Walking
<1>5. ExtractInv' /\ AnswerInv' /\ Increasing' /\ PlainInv'
  BY <1>1, WhileWalking DEF ExtractInv, AnswerInv, Increasing, PlainInv
<1> QED BY <1>3, <1>4, <1>5 DEF ScanInv

LEMMA UnopenedContainerKeeps ==
  ASSUME ScanInv, UnopenedContainer
  PROVE  ScanInv'
<1>1. /\ Walking /\ plainText' = FALSE /\ clues' = clues \cup {"unreached_part"}
      /\ UNCHANGED <<open, parts, pdfs, files, readFailed, reply, sent>>
      /\ WalkReturns(open', pdfs', FALSE)
  BY DEF UnopenedContainer, Walking
<1>2. PlainInv' /\ Increasing' /\ plainText' \in BOOLEAN /\ clues' \subseteq Clue
  BY <1>1, WhileWalking DEF PlainInv, Increasing, Clue
<1> QED BY <1>1, <1>2, WhileWalking, Returning

LEMMA NextPartKeeps ==
  ASSUME ScanInv, NextPart
  PROVE  ScanInv'
<1>1. /\ Walking /\ at = "container" /\ open # << >>
      /\ open' = [open EXCEPT ![Len(open)] = @ + 1] /\ parts' = parts + 1
      /\ UNCHANGED <<plainText, pdfs, readFailed, reply, sent, clues>>
  BY WhileWalking DEF NextPart, Walking
<1>2. open' \in Seq(Nat) /\ Len(open') = Len(open)
  <2>1. open \in Seq(Nat) /\ Len(open) \in DOMAIN open
    BY <1>1, WhileWalking
  <2> QED BY <1>1, <2>1
<1>3. PlainInv' /\ Increasing'
  BY <1>1, WhileWalking DEF PlainInv, Increasing
<1>4. CASE parts' > MaxParts
  <2>1. at' = "extracted" /\ files' = {} /\ result' = "too_complex" /\ parts' \in 0..MaxParts + 1
    BY <1>1, <1>4, WhileWalking, Limits DEF NextPart, ExtractFails
  <2>2. /\ open' \in Seq(Nat) /\ Len(open') <= MaxDepth + 1
        /\ plainText' \in BOOLEAN /\ clues' \subseteq Clue /\ sent' \subseteq 0..MaxParts
    BY <1>1, <1>2, WhileWalking
  <2>3. result' \in {"no_pdf", "too_complex", "storage"} /\ UNCHANGED <<pdfs, readFailed, reply>>
    BY <1>1, <2>1
  <2> QED BY <1>1, <1>3, <2>1, <2>2, <2>3, Failing, Zenon
<1>5. CASE ~(parts' > MaxParts)
  <2>1. at' = "entity" /\ UNCHANGED <<result, files>>
    BY <1>5 DEF NextPart
  <2>2. parts' \in 0..MaxParts
    BY <1>1, <1>5, WhileWalking, Limits
  <2>3. ScanTypeOK'
    <3>1. at' \in Place /\ parts' \in 0..MaxParts + 1
      BY <2>1, <2>2, Limits DEF Place
    <3>2. Len(open') <= MaxDepth + 1 /\ open' \in Seq(Nat)
      BY <1>1, <1>2, WhileWalking
    <3> QED BY <1>1, <2>1, <3>1, <3>2, Zenon DEF ScanInv, ScanTypeOK
  <2>4. WalkInv'
    <3>1. \A n \in sent' : n < parts'
      BY <1>1, WhileWalking, Limits
    <3>2. files' = sent' /\ ToSet(pdfs') = sent' /\ result' = "none" /\ reply' = "none"
      BY <1>1, <2>1, WhileWalking
    <3>3. parts' <= MaxParts /\ \A n \in sent' : n <= parts'
      BY <1>1, <2>2, <3>1, WhileWalking, Limits
    <3> QED BY <2>1, <3>1, <3>2, <3>3 DEF WalkInv, Walking
  <2>5. ExtractInv' /\ AnswerInv'
    BY <2>1 DEF ExtractInv, AnswerInv
  <2> QED BY <1>3, <2>3, <2>4, <2>5 DEF ScanInv
<1> QED BY <1>4, <1>5

LEMMA ReadFailsKeeps ==
  ASSUME ScanInv, ReadFails
  PROVE  ScanInv'
<1>1. /\ readFailed' = TRUE /\ at # "answered"
      /\ UNCHANGED <<at, open, parts, plainText, pdfs, files, result, reply, sent, clues>>
  BY DEF ReadFails, Walking
<1>2. ScanTypeOK'
  BY <1>1, Zenon DEF ScanInv, ScanTypeOK
<1>3. WalkInv' /\ ExtractInv' /\ AnswerInv' /\ Increasing' /\ PlainInv'
  BY <1>1 DEF ScanInv, WalkInv, Walking, ExtractInv, AnswerInv, Increasing, PlainInv
<1> QED BY <1>2, <1>3 DEF ScanInv

LEMMA RespondKeeps ==
  ASSUME ScanInv, Respond
  PROVE  ScanInv'
<1>1. /\ at = "extracted" /\ at' = "answered" /\ reply' = Answer
      /\ files' = IF reply' = "scan" THEN files ELSE {}
      /\ UNCHANGED <<open, parts, plainText, pdfs, readFailed, result, sent, clues>>
  BY DEF Respond
<1>2. /\ result \in Result \ {"none"}
      /\ result = "scan" => files = sent
      /\ result = "no_attachments" => plainText
  BY <1>1 DEF ScanInv, ScanTypeOK, ExtractInv
<1>3. /\ reply' \in Reply
      /\ reply' = "scan" => result = "scan" /\ ~readFailed
      /\ reply' = "dropped" => result = "no_attachments" /\ ~readFailed
  BY <1>1, <1>2 DEF Answer, Reply, Result
<1>4. ScanTypeOK'
  <2>1. at' \in Place /\ files' \subseteq 0..MaxParts
    BY <1>1 DEF ScanInv, ScanTypeOK, Place
  <2> QED BY <1>1, <1>3, <2>1, Zenon DEF ScanInv, ScanTypeOK
<1>5. AnswerInv'
  BY <1>1, <1>2, <1>3 DEF AnswerInv
<1>6. WalkInv' /\ ExtractInv' /\ Increasing' /\ PlainInv'
  BY <1>1 DEF ScanInv, WalkInv, Walking, ExtractInv, Increasing, PlainInv
<1> QED BY <1>4, <1>5, <1>6 DEF ScanInv

-----------------------------------------------------------------------------
LEMMA ScanKeeps == ScanInv /\ [ScanNext]_scanVars => ScanInv'
<1> SUFFICES ASSUME ScanInv, [ScanNext]_scanVars
             PROVE  ScanInv'
  OBVIOUS
<1>1. CASE NoMessage
  BY <1>1, NoMessageKeeps
<1>2. CASE DeepEntity
  BY <1>2, DeepEntityKeeps
<1>3. CASE OpenContainer
  BY <1>3, OpenContainerKeeps
<1>4. CASE UnopenedContainer
  BY <1>4, UnopenedContainerKeeps
<1>5. ASSUME NEW entity \in Entity, Leaf(entity)
      PROVE  ScanInv'
  BY <1>5, LeafKeeps
<1>6. CASE NextPart
  BY <1>6, NextPartKeeps
<1>7. ASSUME NEW clean \in BOOLEAN, EndContainer(clean)
      PROVE  ScanInv'
  BY <1>7, EndContainerKeeps
<1>8. CASE ReadFails
  BY <1>8, ReadFailsKeeps
<1>9. CASE Respond
  BY <1>9, RespondKeeps
<1>10. CASE UNCHANGED scanVars
  <2>1. ScanTypeOK'
    BY <1>10, Zenon DEF scanVars, ScanInv, ScanTypeOK
  <2>2. WalkInv' /\ ExtractInv' /\ AnswerInv' /\ Increasing' /\ PlainInv'
    BY <1>10
       DEF scanVars, ScanInv, WalkInv, Walking, ExtractInv, AnswerInv, Increasing, PlainInv
  <2> QED BY <2>1, <2>2 DEF ScanInv
<1> QED
  BY <1>1, <1>2, <1>3, <1>4, <1>5, <1>6, <1>7, <1>8, <1>9, <1>10 DEF ScanNext, ScanWalk

\* The invariant holds at every moment of any message.
THEOREM ScanInvariant == ScanSpec => []ScanInv
BY ScanStarts, ScanKeeps, PTL DEF ScanSpec

\* Every state is well typed; above all the depth and the number of parts stay
\* within what the limits allow, over the whole tree.
THEOREM ScanTypeCorrect == ScanSpec => []ScanTypeOK
<1>1. ScanInv => ScanTypeOK
  BY DEF ScanInv
<1> QED BY <1>1, ScanInvariant, PTL

\* No message that hid anything is accepted and dropped (DroppedHadNothing).
THEOREM DroppedMessagesHadNothing == ScanSpec => []DroppedHadNothing
<1>1. ScanInv => DroppedHadNothing
  BY DEF ScanInv, ScanTypeOK, Place, WalkInv, Walking, ExtractInv, AnswerInv, PlainInv,
         DroppedHadNothing
<1> QED BY <1>1, ScanInvariant, PTL

\* What is kept of a message is its whole PDFs, or nothing (KeptIsWhatWasSent).
THEOREM KeptScansAreComplete == ScanSpec => []KeptIsWhatWasSent
<1>1. ScanInv => KeptIsWhatWasSent
  BY DEF ScanInv, ScanTypeOK, Place, WalkInv, Walking, ExtractInv, AnswerInv, Increasing,
         KeptIsWhatWasSent
<1> QED BY <1>1, ScanInvariant, PTL
=============================================================================

--------------------------- MODULE Grounding_proofs ---------------------------
(***************************************************************************)
(* Proofs about Grounding, for any document, any sentences the model may   *)
(* write and any number of turns: type correctness; that what a turn shows *)
(* asks rests on what the user said and that turn obtained; that the       *)
(* confidence shown is one the evidence and the claim parse heard carry;   *)
(* and that a reply in an envelope within reach is shown without it.       *)
(***************************************************************************)
EXTENDS Grounding, SequenceTheorems, TLAPS

\* The texts of the program's own are plain.
LEMMA FixedTexts ==
  /\ Fixed \in Texts
  /\ Fixed.wrap = <<>> /\ Fixed.body = {}
<1>1. <<>> \in Seq(Layer) OBVIOUS
<1>2. QED BY <1>1 DEF Fixed, Texts

\* The question is one sentence that shows the claim's number and amount and the
\* figures of the split.
LEMMA Questions ==
  ASSUME NEW args \in Arguments, NEW figures \in SUBSET Nat
  PROVE  /\ [Fixed EXCEPT !.body = {Question(args, figures)}] \in Texts
         /\ [Fixed EXCEPT !.body = {Question(args, figures)}].body = {Question(args, figures)}
         /\ Question(args, figures).amounts = args.sums \cup figures
         /\ Question(args, figures).numbers = args.numbers
<1>1. args.sums \subseteq Nat /\ args.numbers \subseteq PolicyNumbers
  BY GroundingAssumption DEF Arguments
<1>2. Question(args, figures) \in Sentence BY <1>1 DEF Question, Sentence
<1>3. /\ Question(args, figures).amounts = args.sums \cup figures
      /\ Question(args, figures).numbers = args.numbers
  BY DEF Question
<1> HIDE DEF Question
<1>4. QED BY <1>2, <1>3, FixedTexts DEF Texts, Fixed

\* The figures of a split are amounts.
LEMMA FiguresType ==
  ASSUME NEW s \in Sections, NEW args \in Arguments, NEW a \in args.sums
  PROVE  a \in Sums /\ Terms[s] \subseteq Nat /\ Shares[s][a] \subseteq Nat
<1>1. a \in Sums BY DEF Arguments
<1>2. QED BY <1>1, GroundingAssumption

\* Opening, reading back and cutting leave a sequence of objects.
LEMMA WrapTypes ==
  ASSUME NEW w \in Seq(Layer), NEW keys
  PROVE  /\ Opened(w, keys) \in Seq(Layer)
         /\ <<Spoken>> \in Seq(Layer)
         /\ Cracked(w) \subseteq Seq(Layer)
         /\ Holding(w, keys) => w # <<>> /\ Head(w) \in Layer
         /\ <<Spoken>> # <<>> /\ ~Holding(<<Spoken>>, AnswerKeys)
         /\ ~Holding(<<Spoken>>, TextKeys) /\ ~Holding(<<Spoken>>, {"call"})
<1>1. Spoken \in Layer /\ Broken \in Layer BY DEF Spoken, Broken, Layer, Unreadable
<1>2. w # <<>> => Head(w) \in Layer /\ Tail(w) \in Seq(Layer) BY HeadTailProperties
<1>3. \A n \in 1 .. Len(w) : [w EXCEPT ![n] = Broken] \in Seq(Layer)
  BY <1>1, ExceptSeq
<1>4. Cracked(w) \subseteq Seq(Layer) BY <1>3, LenProperties DEF Cracked
<1>5. <<Spoken>> # <<>> /\ Head(<<Spoken>>).key = "spoken" BY DEF Spoken
<1>6. QED BY <1>1, <1>2, <1>4, <1>5 DEF Opened, Holding, AnswerKeys, TextKeys

\* What the tools and capture obtain are chunks of the document.
LEMMA ChunksOfDocument ==
  /\ \A found \in SUBSET Sections :
       {[section |-> s, amounts |-> States[s]] : s \in found} \subseteq Chunks
  /\ \A s \in Sections : {[section |-> s, amounts |-> Terms[s]]} \subseteq Chunks
BY GroundingAssumption DEF Chunks

\* Every reply is a text.
LEMMA RepliesType == Replies \subseteq Texts
<1>1. Objects \subseteq Layer BY DEF Layer
<1>2. Envelopes \subseteq Seq(Layer) BY <1>1, GroundingAssumption, SeqMonotonic
<1>3. \A B \in Bodies : B \subseteq Sentence BY GroundingAssumption DEF Bodies
<1>4. QED BY <1>2, <1>3 DEF Replies, Texts

-----------------------------------------------------------------------------
\* A confidence is a number up to 100 or none.
LEMMA ConfidenceType ==
  ASSUME modelConfidence \in Confidences, NEW rewritten, NEW asserts
  PROVE  ConfidenceFor(rewritten, asserts) \in Confidences
<1>1. \A cap \in 0 .. 100 : Capped(modelConfidence, cap) \in Confidences
  BY GroundingAssumption DEF Capped, Confidences
<1>2. QED
  BY <1>1 DEF ConfidenceFor, Confidences, UngroundedCap, RewrittenCap, GroundedCap

\* Sentences stay sentences when citations are cut out of them.
LEMMA CutType ==
  ASSUME NEW body \in SUBSET Sentence
  PROVE  /\ Cut(body) \subseteq Sentence /\ TrueOf(Cut(body)) \subseteq Sentence
         /\ \A s \in Cut(body) : \A c \in s.cites : Real(c, retrieved)
<1>1. ASSUME NEW s \in body
      PROVE  LET t == [s EXCEPT !.cites = {c \in @ : Real(c, retrieved)}]
             IN  t \in Sentence /\ \A c \in t.cites : Real(c, retrieved)
  <2> DEFINE kept == {c \in s.cites : Real(c, retrieved)}
  <2>1. kept \subseteq s.cites /\ \A c \in kept : Real(c, retrieved) OBVIOUS
  <2> HIDE DEF kept
  <2>2. s \in Sentence OBVIOUS
  <2>3. /\ [s EXCEPT !.cites = kept] \in Sentence
        /\ [s EXCEPT !.cites = kept].cites = kept
    BY <2>1, <2>2 DEF Sentence
  <2>4. QED BY <2>1, <2>3 DEF kept
<1>2. QED BY <1>1 DEF Cut, TrueOf

\* Only sections that were retrieved are cited.
LEMMA AttributedType ==
  ASSUME retrieved \subseteq Chunks, NEW body
  PROVE  Attributed(body) \subseteq SectionsOf(retrieved) /\ Attributed(body) \subseteq Sections
<1>1. SectionsOf(retrieved) \subseteq Sections BY DEF SectionsOf, Chunks
<1>2. Named(body) \subseteq SectionsOf(retrieved) BY DEF Named
<1>3. Quoted(body) \subseteq SectionsOf(retrieved) BY DEF Quoted, SectionsOf
<1>4. QED BY <1>1, <1>2, <1>3 DEF Attributed

\* The step of ground, taken apart.
LEMMA GroundStep ==
  ASSUME GroundingTypeOK, Ground
  PROVE  \E body \in SUBSET Sentence, edited \in BOOLEAN, replaced \in BOOLEAN :
           /\ text'.body = body /\ text' \in Texts
           /\ sources' = Attributed(body)
           /\ confidence' = ConfidenceFor(edited \/ replaced, \E s \in body : s.asserts)
           /\ reason' = (unknown \/ ((\E s \in body : s.asserts)
                                       /\ (retrieved = {} \/ edited \/ replaced)))
           /\ ~edited /\ ~replaced => body = text.body
           /\ body \subseteq TrueOf(Cut(text.body))
           /\ \A s \in body : s.numbers \subseteq stated \cup produced /\ ~s.estimates
<1> DEFINE cut == Cut(text.body)
           kept == TrueOf(cut)
           guessed == \E s \in kept : ~(s.numbers \subseteq stated \cup produced)
           replaced == guessed \/ \E s \in kept : s.estimates
           edited == cut # text.body \/ kept # cut
           body == IF replaced THEN {} ELSE kept
           asserts == \E s \in body : s.asserts
<1>1. /\ text' \in [wrap : IF replaced THEN {<<>>}
                           ELSE {text.wrap} \cup (IF edited THEN Cracked(text.wrap) ELSE {}),
                    body : {body}]
      /\ sources' = Attributed(body)
      /\ confidence' = ConfidenceFor(edited \/ replaced, asserts)
      /\ reason' = (unknown \/ (asserts /\ (retrieved = {} \/ edited \/ replaced)))
  BY DEF Ground
<1>2. text.wrap \in Seq(Layer) /\ text.body \in SUBSET Sentence BY DEF GroundingTypeOK, Texts
<1>3. kept \subseteq Sentence BY <1>2, CutType
<1>4. \A s \in body : s.numbers \subseteq stated \cup produced /\ ~s.estimates OBVIOUS
<1>5. body \in SUBSET Sentence /\ body \subseteq kept BY <1>3
<1>6. ~edited /\ ~replaced => body = text.body OBVIOUS
<1>7. edited \in BOOLEAN /\ replaced \in BOOLEAN OBVIOUS
<1> HIDE DEF edited, replaced, body
<1>8. text'.body = body /\ text' \in Texts
  BY <1>1, <1>2, <1>5, WrapTypes, FixedTexts DEF Texts, Fixed
<1>9. QED BY <1>1, <1>4, <1>5, <1>6, <1>7, <1>8

-----------------------------------------------------------------------------
\* The types, with the reply's.
GType == GroundingTypeOK /\ reply \in Texts

\* They hold to begin with.
LEMMA InitType == ASSUME Init PROVE GType
<1>1. NoNumber \in Confidences BY DEF Confidences
<1>2. 0 \in 0 .. MaxTurns /\ 0 \in 0 .. MaxIterations BY GroundingAssumption
<1>3. QED BY <1>1, <1>2, FixedTexts DEF Init, GroundingTypeOK, GType

\* What was obtained is made of chunks and policy numbers.
LEMMA ObtainType ==
  ASSUME GType, NEW chunks \in SUBSET Chunks, NEW numbers \in SUBSET PolicyNumbers,
         Obtain(chunks, numbers)
  PROVE  /\ retrieved' \subseteq Chunks /\ fetched' \subseteq Chunks
         /\ produced' \subseteq PolicyNumbers /\ looked' \subseteq PolicyNumbers
BY DEF GType, GroundingTypeOK, Obtain

\* Every tool's result is.
LEMMA ToolsType ==
  ASSUME GType, Search \/ Estimate \/ LookUp
  PROVE  \E chunks \in SUBSET Chunks, numbers \in SUBSET PolicyNumbers :
           Obtain(chunks, numbers)
BY ChunksOfDocument DEF Search, Estimate, LookUp

\* What confirm says is a text.
LEMMA ConfirmType ==
  ASSUME NEW args \in Arguments, NEW figures \in SUBSET Nat, Confirm(args, figures)
  PROVE  text' \in Texts /\ phase' \in {"asked", "parse"}
<1>1. CASE phase' = "asked" /\ text' = [Fixed EXCEPT !.body = {Question(args, figures)}]
  BY <1>1, Questions
<1>2. CASE phase' = "parse" /\ text' = Fixed BY <1>2, FixedTexts
<1>3. QED BY <1>1, <1>2 DEF Confirm

\* What a proposal obtains and shows is.
LEMMA ProposeType ==
  ASSUME GType, NEW args \in Arguments, ProposeSplit(args) \/ ProposeBare(args)
  PROVE  /\ retrieved' \subseteq Chunks /\ fetched' \subseteq Chunks
         /\ produced' \subseteq PolicyNumbers /\ looked' \subseteq PolicyNumbers
         /\ sources' \subseteq Sections
         /\ text' \in Texts /\ phase' \in {"asked", "parse"}
<1>1. CASE ProposeSplit(args)
  <2>1. PICK s \in Sections, a \in args.sums :
          /\ Obtain({[section |-> s, amounts |-> Terms[s]]}, {})
          /\ sources' = {s}
          /\ Confirm(args, Terms[s] \cup Shares[s][a])
    BY <1>1 DEF ProposeSplit
  <2>2. Terms[s] \cup Shares[s][a] \in SUBSET Nat BY FiguresType
  <2>3. text' \in Texts /\ phase' \in {"asked", "parse"} BY <2>1, <2>2, ConfirmType
  <2>4. QED BY <2>1, <2>3, ChunksOfDocument, ObtainType
<1>2. CASE ProposeBare(args)
  <2>1. text' \in Texts /\ phase' \in {"asked", "parse"}
    BY <1>2, ConfirmType DEF ProposeBare
  <2>2. QED BY <1>2, <2>1 DEF ProposeBare, evidence, GType, GroundingTypeOK
<1>3. QED BY <1>1, <1>2

\* Every step preserves them.
LEMMA StepType == ASSUME GType, [Next]_vars PROVE GType'
<1> USE GroundingAssumption, FixedTexts
<1>0. GroundingTypeOK /\ text \in Texts /\ reply \in Texts BY DEF GType, GroundingTypeOK
<1>1. CASE Hear
  <2>1. /\ turns' \in 0 .. MaxTurns /\ phase' = "guard" /\ iterations' = iterations
        /\ stated' \in SUBSET PolicyNumbers /\ told' \in SUBSET Sums
        /\ fetched' = {} /\ looked' = {} /\ reply' = Fixed
        /\ UNCHANGED <<tier, retrieved, produced, sources, text, verdict>>
    BY <1>1 DEF Hear, GType, GroundingTypeOK
  <2>2. QED BY <2>1 DEF GType, GroundingTypeOK, verdict
<1>2. CASE Guard
  <2>1. /\ retrieved' = {} /\ produced' = {} /\ sources' = {}
        /\ phase' \in {"agent", "parse"} /\ tier' \in BOOLEAN
        /\ text' \in {text, Fixed} /\ iterations' \in {0, iterations}
        /\ UNCHANGED <<turns, given, fetched, looked, verdict, reply>>
    BY <1>2 DEF Guard
  <2>2. iterations' \in 0 .. MaxIterations BY <2>1 DEF GType, GroundingTypeOK
  <2>3. QED BY <2>1, <2>2 DEF GType, GroundingTypeOK, verdict, given
<1>3. CASE UseTool
  <2>1. /\ retrieved' \subseteq Chunks /\ fetched' \subseteq Chunks
        /\ produced' \subseteq PolicyNumbers /\ looked' \subseteq PolicyNumbers
    BY <1>3, ToolsType, ObtainType DEF UseTool
  <2>2. QED BY <1>3, <2>1 DEF UseTool, GType, GroundingTypeOK, verdict, given
<1>4. CASE Propose
  <2>1. PICK args \in Arguments : ProposeSplit(args) \/ ProposeBare(args)
    BY <1>4 DEF Propose
  <2>2. /\ retrieved' \subseteq Chunks /\ fetched' \subseteq Chunks
        /\ produced' \subseteq PolicyNumbers /\ looked' \subseteq PolicyNumbers
        /\ sources' \subseteq Sections
        /\ text' \in Texts /\ phase' \in {"asked", "parse"}
    BY <2>1, ProposeType
  <2>3. QED BY <1>4, <2>2 DEF Propose, GType, GroundingTypeOK, verdict, given
<1>5. CASE Answered
  BY <1>5 DEF Answered, GType, GroundingTypeOK, verdict, evidence, given
<1>6. CASE Reply
  <2>1. reply' \in Texts /\ text' \in Texts BY <1>6, RepliesType DEF Reply
  <2>2. QED BY <1>6, <2>1 DEF Reply, GType, GroundingTypeOK, verdict, evidence, given
<1>7. CASE StopLooping
  BY <1>7 DEF StopLooping, GType, GroundingTypeOK, verdict, evidence, given
<1>8. CASE Readback
  <2>1. text' \in Texts BY <1>0, <1>8, WrapTypes DEF Readback, Texts
  <2>2. QED BY <1>8, <2>1 DEF Readback, GType, GroundingTypeOK, verdict, evidence, given
<1>9. CASE Parse
  <2>1. text' \in Texts BY <1>0, <1>9, WrapTypes DEF Parse, Texts
  <2>2. modelConfidence' \in Confidences /\ unknown' \in BOOLEAN
    <3>1. text.wrap \in Seq(Layer) BY <1>0 DEF Texts
    <3>2. \A l \in Layer : l.claims \in Confidences /\ l.unknown \in BOOLEAN
      BY DEF Layer, Objects, Unreadable, Confidences
    <3>3. Holding(text.wrap, AnswerKeys) =>
            /\ Head(text.wrap).claims \in Confidences
            /\ Head(text.wrap).unknown \in BOOLEAN
      BY <3>1, <3>2, WrapTypes
    <3>4. Holding(text.wrap, AnswerKeys) \in BOOLEAN /\ Holding(text.wrap, {"call"}) \in BOOLEAN
      BY DEF Holding
    <3>5. QED BY <1>9, <3>3, <3>4 DEF Parse, Confidences
  <2>3. QED BY <1>9, <2>1, <2>2 DEF Parse, GType, GroundingTypeOK, evidence, given
<1>10. CASE Ground
  <2>1. PICK body \in SUBSET Sentence, edited \in BOOLEAN, replaced \in BOOLEAN :
          /\ text'.body = body /\ text' \in Texts
          /\ sources' = Attributed(body)
          /\ confidence' = ConfidenceFor(edited \/ replaced, \E s \in body : s.asserts)
    BY <1>0, <1>10, GroundStep
  <2>2. sources' \subseteq Sections BY <1>0, <2>1, AttributedType DEF GroundingTypeOK
  <2>3. confidence' \in Confidences BY <1>0, <2>1, ConfidenceType DEF GroundingTypeOK
  <2>4. reason' \in BOOLEAN BY <1>10 DEF Ground
  <2>5. QED
    BY <1>10, <2>1, <2>2, <2>3, <2>4 DEF Ground, GType, GroundingTypeOK, evidence, given
<1>11. CASE Format
  <2>1. text' \in Texts BY <1>0, <1>11, WrapTypes DEF Format, Unwrapped, Texts
  <2>2. QED BY <1>11, <2>1 DEF Format, GType, GroundingTypeOK, verdict, evidence, given
<1>12. CASE UNCHANGED vars
  BY <1>12 DEF vars, verdict, evidence, given, GType, GroundingTypeOK
<1>13. QED
  BY <1>1, <1>2, <1>3, <1>4, <1>5, <1>6, <1>7, <1>8, <1>9, <1>10, <1>11, <1>12 DEF Next

\* The types hold throughout.
LEMMA TypeInvariance == Spec => []GType
<1>1. Init => GType BY InitType
<1>2. GType /\ [Next]_vars => GType' BY StepType
<1>3. QED BY <1>1, <1>2, PTL DEF Spec

\* GroundingTypeOK holds in every state: whatever the model claims, a published
\* confidence lies between 0 and 1, and sources are sections of the document.
THEOREM GroundingTypeCorrect == Spec => []GroundingTypeOK
<1>1. GType => GroundingTypeOK BY DEF GType
<1>2. QED BY <1>1, TypeInvariance, PTL

-----------------------------------------------------------------------------
\* A body left of a reply by ground is grounded in what was retrieved, once its
\* sources are the sections attributed to it.
LEMMA BodyIsGrounded ==
  ASSUME GType, retrieved = fetched, produced = looked,
         NEW body, body \subseteq TrueOf(Cut(text.body)),
         \A s \in body : s.numbers \subseteq stated \cup produced /\ ~s.estimates
  PROVE  /\ \A s \in body : \A a \in s.amounts : \A t \in Sections :
              SectionsOf({c \in fetched : a \in c.amounts}) = {t} => t \in Attributed(body)
         /\ \A s \in body : \A c \in s.cites :
              /\ Cardinality(c.begins \cap SectionsOf(fetched)) = 1
              /\ c.names \cap SectionsOf(fetched) \subseteq Attributed(body)
         /\ \A s \in body : s.numbers \subseteq stated \cup looked
         /\ \A s \in body : ~s.estimates /\ \A c \in s.compares : Holds(c)
<1>1. text.body \in SUBSET Sentence BY DEF GType, GroundingTypeOK, Texts
<1>2. \A s \in body : ~Contradicts(s) /\ \A c \in s.cites : Real(c, retrieved)
  BY <1>1, CutType DEF TrueOf
<1>3. Named(body) \subseteq Attributed(body) /\ Quoted(body) \subseteq Attributed(body)
  BY DEF Attributed
<1>4. ASSUME NEW s \in body, NEW a \in s.amounts, NEW t \in Sections,
             SectionsOf({c \in fetched : a \in c.amounts}) = {t}
      PROVE  t \in Attributed(body)
  <2>1. PICK c \in fetched : a \in c.amounts /\ c.section = t BY <1>4 DEF SectionsOf
  <2>2. \A d \in retrieved : a \in d.amounts => d.section = t BY <1>4 DEF SectionsOf
  <2>3. t \in Quoted(body) BY <2>1, <2>2 DEF Quoted
  <2>4. QED BY <1>3, <2>3
<1>5. ASSUME NEW s \in body, NEW c \in s.cites
      PROVE  /\ Cardinality(c.begins \cap SectionsOf(fetched)) = 1
             /\ c.names \cap SectionsOf(fetched) \subseteq Attributed(body)
  <2>1. c.names \cap SectionsOf(retrieved) \subseteq Named(body) BY DEF Named
  <2>2. QED BY <1>2, <1>3, <2>1 DEF Real
<1>6. \A s \in body : \A c \in s.compares : Holds(c) BY <1>2 DEF Contradicts
<1>7. QED BY <1>4, <1>5, <1>6

\* The invariant holds to begin with.
LEMMA InitGrounding == ASSUME Init PROVE GroundingInv
BY FixedTexts
DEF Init, GroundingInv, EvidenceIsFresh, TextIsGrounded, ReplyIsKept, VerdictStands

\* From guard to ground the turn's evidence grows together with the state's.
LEMMA StepEvidence ==
  ASSUME GType, GroundingInv, [Next]_vars
  PROVE  EvidenceIsFresh'
<1> USE DEF EvidenceIsFresh, SectionsOf
<1>0. EvidenceIsFresh BY DEF GroundingInv
<1>1. CASE Hear BY <1>1 DEF Hear
<1>2. CASE Guard
  <2>1. fetched = {} /\ looked = {} BY <1>0, <1>2 DEF Guard
  <2>2. QED BY <1>2, <2>1 DEF Guard
<1>3. CASE UseTool
  <2>1. PICK chunks, numbers : Obtain(chunks, numbers)
    BY <1>3 DEF UseTool, Search, Estimate, LookUp
  <2>2. QED BY <1>0, <1>3, <2>1 DEF UseTool, Obtain
<1>4. CASE Propose
  <2>0. PICK args \in Arguments : ProposeSplit(args) \/ ProposeBare(args)
    BY <1>4 DEF Propose
  <2>1. CASE ProposeSplit(args)
    <3>1. PICK s \in Sections, a \in args.sums :
            /\ Obtain({[section |-> s, amounts |-> Terms[s]]}, {})
            /\ sources' = {s}
            /\ Confirm(args, Terms[s] \cup Shares[s][a])
      BY <2>1 DEF ProposeSplit
    <3> DEFINE c == [section |-> s, amounts |-> Terms[s]]
    <3>2. c.section = s OBVIOUS
    <3>3. retrieved' = retrieved \cup {c} /\ fetched' = fetched \cup {c}
          /\ produced' = produced /\ looked' = looked
      BY <3>1 DEF Obtain
    <3>4. retrieved = fetched /\ produced = looked BY <1>0, <1>4 DEF Propose
    <3>5. phase' # "guard" BY <3>1 DEF Confirm
    <3> HIDE DEF c
    <3>6. QED BY <3>1, <3>2, <3>3, <3>4, <3>5
  <2>2. CASE ProposeBare(args)
    <3>1. phase' # "guard" BY <2>2 DEF ProposeBare, Confirm
    <3>2. QED BY <1>0, <1>4, <2>2, <3>1 DEF Propose, ProposeBare, evidence
  <2>3. QED BY <2>0, <2>1, <2>2
<1>5. CASE Answered \/ Reply \/ StopLooping \/ Readback \/ Parse \/ Format
  BY <1>0, <1>5 DEF Answered, Reply, StopLooping, Readback, Parse, Format, evidence
<1>6. CASE Ground
  <2>1. PICK body \in SUBSET Sentence, edited \in BOOLEAN, replaced \in BOOLEAN :
          sources' = Attributed(body)
    BY <1>6, GroundStep DEF GType
  <2>2. sources' \subseteq SectionsOf(retrieved)
    <3>1. retrieved \subseteq Chunks BY DEF GType, GroundingTypeOK
    <3>2. Attributed(body) \subseteq SectionsOf(retrieved) BY <3>1, AttributedType
    <3>3. QED BY <2>1, <3>2
  <2>3. /\ phase = "ground" /\ phase' = "format"
        /\ UNCHANGED <<retrieved, produced, fetched, looked>>
    BY <1>6 DEF Ground, evidence
  <2>4. QED BY <1>0, <2>2, <2>3
<1>7. CASE UNCHANGED vars BY <1>0, <1>7 DEF vars, evidence
<1>8. QED BY <1>1, <1>2, <1>3, <1>4, <1>5, <1>6, <1>7 DEF Next

\* What confirm asks is accounted for: the number and the amount are the user's,
\* the rest is of the section that capture has just read.
LEMMA QuestionsAreGrounded ==
  ASSUME NEW args \in Arguments, ProposeSplit(args) \/ ProposeBare(args),
         UNCHANGED given, phase' = "asked"
  PROVE  NumbersHaveAnOwner' /\ AmountsAreAccounted'
<1> USE DEF NumbersHaveAnOwner, AmountsAreAccounted, given
<1>1. CASE ProposeSplit(args)
  <2>1. PICK s \in Sections, a \in args.sums :
          /\ Obtain({[section |-> s, amounts |-> Terms[s]]}, {})
          /\ sources' = {s}
          /\ Confirm(args, Terms[s] \cup Shares[s][a])
    BY <1>1 DEF ProposeSplit
  <2> DEFINE c == [section |-> s, amounts |-> Terms[s]]
             q == Question(args, Terms[s] \cup Shares[s][a])
  <2>2. Terms[s] \cup Shares[s][a] \in SUBSET Nat BY FiguresType
  <2>3. /\ text'.body = {q} /\ q.amounts = args.sums \cup (Terms[s] \cup Shares[s][a])
        /\ q.numbers = args.numbers /\ args.numbers \subseteq stated /\ args.sums \subseteq told
    BY <2>1, <2>2, Questions DEF Confirm
  <2>4. c \in fetched' /\ c.section \in sources' /\ c.amounts = Terms[s] BY <2>1 DEF Obtain
  <2>5. stated' = stated /\ told' = told /\ a \in told BY <2>3
  <2> HIDE DEF c, q
  <2>6. ASSUME NEW x \in q.amounts
        PROVE  \/ x \in told'
               \/ \E d \in fetched' :
                    /\ d.section \in sources'
                    /\ x \in d.amounts \/ \E sum \in told' : x \in Shares[d.section][sum]
    <3>1. CASE x \in args.sums BY <2>3, <2>5, <3>1
    <3>2. CASE x \in Terms[s] BY <2>4, <3>2
    <3>3. CASE x \in Shares[s][a]
      <4>1. c.section = s BY DEF c
      <4>2. x \in Shares[c.section][a] BY <3>3, <4>1
      <4>3. QED BY <2>4, <2>5, <4>2
    <3>4. QED BY <2>3, <3>1, <3>2, <3>3
  <2>7. QED BY <2>3, <2>5, <2>6
<1>2. CASE ProposeBare(args)
  <2>1. /\ text'.body = {Question(args, {})} /\ Question(args, {}).amounts = args.sums \cup {}
        /\ Question(args, {}).numbers = args.numbers
        /\ args.numbers \subseteq stated /\ args.sums \subseteq told
    BY <1>2, Questions DEF ProposeBare, Confirm
  <2>2. QED BY <2>1
<1>3. QED BY <1>1, <1>2

\* What format is handed is grounded, and format changes no sentence.
LEMMA StepText ==
  ASSUME GType, GroundingInv, [Next]_vars
  PROVE  TextIsGrounded'
<1> USE DEF TextIsGrounded, AmountsAreSourced, CitationsAreReal, NumbersHaveAnOwner,
            AmountsAreSound
<1>0. TextIsGrounded /\ EvidenceIsFresh BY DEF GroundingInv
<1>1. CASE Hear \/ Guard \/ UseTool \/ Answered \/ Reply \/ StopLooping \/ Readback \/ Parse
  BY <1>1 DEF Hear, Guard, UseTool, Answered, Reply, StopLooping, Readback, Parse
<1>2. CASE Propose
  <2>1. PICK args \in Arguments : ProposeSplit(args) \/ ProposeBare(args)
    BY <1>2 DEF Propose
  <2>2. phase' \in {"asked", "parse"} BY <2>1, ProposeType
  <2>3. phase' = "asked" => NumbersHaveAnOwner' /\ AmountsAreAccounted'
    BY <1>2, <2>1, QuestionsAreGrounded DEF Propose
  <2>4. QED BY <2>2, <2>3
<1>3. CASE Ground
  <2>1. PICK body : /\ text'.body = body /\ sources' = Attributed(body)
                    /\ body \subseteq TrueOf(Cut(text.body))
                    /\ \A s \in body : s.numbers \subseteq stated \cup produced /\ ~s.estimates
    BY <1>3, GroundStep DEF GType
  <2>2. retrieved = fetched /\ produced = looked
    BY <1>0, <1>3 DEF EvidenceIsFresh, Ground
  <2>3. UNCHANGED <<fetched, looked, stated>> /\ phase' = "format"
    BY <1>3 DEF Ground, evidence, given
  <2> DEFINE sound ==
        /\ \A s \in body : \A a \in s.amounts : \A t \in Sections :
             SectionsOf({c \in fetched : a \in c.amounts}) = {t} => t \in Attributed(body)
        /\ \A s \in body : \A c \in s.cites :
             /\ Cardinality(c.begins \cap SectionsOf(fetched)) = 1
             /\ c.names \cap SectionsOf(fetched) \subseteq Attributed(body)
        /\ \A s \in body : s.numbers \subseteq stated \cup looked
        /\ \A s \in body : ~s.estimates /\ \A c \in s.compares : Holds(c)
  <2>4. sound BY <2>1, <2>2, BodyIsGrounded
  <2>5. QED BY <2>1, <2>3, <2>4 DEF SectionsOf, Holds
<1>4. CASE Format
  <2>1. text'.body = text.body BY <1>4 DEF Format, GType, GroundingTypeOK, Texts
  <2>2. /\ phase = "format" /\ phase' = "done"
        /\ UNCHANGED <<sources, fetched, looked, stated>>
    BY <1>4 DEF Format, evidence, given
  <2>3. QED BY <1>0, <2>1, <2>2 DEF SectionsOf, Holds
<1>5. CASE UNCHANGED vars
  BY <1>0, <1>5 DEF vars, evidence, given, SectionsOf, Holds, AmountsAreAccounted
<1>6. QED BY <1>1, <1>2, <1>3, <1>4, <1>5 DEF Next

\* What parse hears is what the reply's outermost object says, unless a read-back
\* stands before it.
LEMMA StepReply ==
  ASSUME GType, GroundingInv, [Next]_vars
  PROVE  ReplyIsKept'
<1> USE DEF ReplyIsKept, Heard
<1>0. ReplyIsKept /\ text \in Texts /\ reply \in Texts
  BY DEF GroundingInv, GType, GroundingTypeOK
<1>1. CASE Hear \/ Guard \/ UseTool \/ Answered \/ StopLooping
  BY <1>0, <1>1 DEF Hear, Guard, UseTool, Answered, StopLooping
<1>2. CASE Propose
  <2>1. PICK args \in Arguments : ProposeSplit(args) \/ ProposeBare(args)
    BY <1>2 DEF Propose
  <2>2. phase' = "asked" \/ (phase' = "parse" /\ text' = Fixed)
    BY <2>1 DEF ProposeSplit, ProposeBare, Confirm
  <2>3. reply = Fixed /\ reply' = reply BY <1>0, <1>2 DEF Propose
  <2>4. QED BY <2>2, <2>3
<1>3. CASE Reply BY <1>3 DEF Reply
<1>4. CASE Readback
  <2>1. /\ phase = "readback" /\ phase' = "parse" /\ UNCHANGED <<tier, reply>>
        /\ \/ text' = text
           \/ tier /\ text' = [text EXCEPT !.wrap = <<Spoken>>]
    BY <1>4 DEF Readback
  <2>2. text = reply \/ (tier /\ text = [reply EXCEPT !.wrap = <<Spoken>>])
    BY <1>0, <2>1
  <2>3. text' = reply \/ (tier /\ text' = [reply EXCEPT !.wrap = <<Spoken>>])
    BY <1>0, <2>1, <2>2 DEF Texts
  <2>4. QED BY <2>1, <2>3
<1>5. CASE Parse
  <2>1. /\ phase = "parse" /\ phase' = "ground" /\ UNCHANGED <<tier, reply>>
        /\ text' = IF Holding(text.wrap, {"call"}) THEN Fixed
                   ELSE [text EXCEPT !.wrap = Opened(@, AnswerKeys)]
        /\ ~Holding(text.wrap, {"call"}) /\ Holding(text.wrap, AnswerKeys) =>
             /\ modelConfidence' = Head(text.wrap).claims
             /\ unknown' = Head(text.wrap).unknown
        /\ Holding(text.wrap, {"call"}) => unknown'
    <3> DEFINE called == Holding(text.wrap, {"call"})
               heard == Holding(text.wrap, AnswerKeys)
    <3>1. /\ phase = "parse" /\ phase' = "ground" /\ UNCHANGED <<tier, reply>>
          /\ text' = IF called THEN Fixed
                     ELSE [text EXCEPT !.wrap = Opened(@, AnswerKeys)]
          /\ modelConfidence' = IF called THEN 0
                                ELSE IF heard THEN Head(text.wrap).claims ELSE NoNumber
          /\ unknown' = (called \/ (heard /\ Head(text.wrap).unknown))
      BY <1>5 DEF Parse
    <3>2. heard => Head(text.wrap).unknown \in BOOLEAN
      <4>1. \A l \in Layer : l.unknown \in BOOLEAN BY DEF Layer, Objects, Unreadable
      <4>2. QED BY <1>0, <4>1, WrapTypes DEF Texts
    <3> HIDE DEF called, heard
    <3>3. ~called /\ heard => /\ modelConfidence' = Head(text.wrap).claims
                             /\ unknown' = Head(text.wrap).unknown
      BY <3>1, <3>2
    <3>4. called => unknown' BY <3>1
    <3>5. QED BY <3>1, <3>3, <3>4 DEF called, heard
  <2>2. Holding(text.wrap, AnswerKeys) => ~Holding(text.wrap, {"call"})
    BY DEF Holding, AnswerKeys
  <2>3. text = reply \/ (tier /\ text = [reply EXCEPT !.wrap = <<Spoken>>])
    BY <1>0, <2>1
  <2>4. CASE text = reply BY <2>1, <2>2, <2>4
  <2>5. CASE tier /\ text = [reply EXCEPT !.wrap = <<Spoken>>]
    <3>1. text.wrap = <<Spoken>> BY <1>0, <2>5 DEF Texts
    <3>2. <<>> \in Seq(Layer) OBVIOUS
    <3>3. ~Holding(text.wrap, {"call"}) /\ Opened(text.wrap, AnswerKeys) = <<Spoken>>
      BY <3>1, <3>2, WrapTypes DEF Opened
    <3>4. text' = [reply EXCEPT !.wrap = <<Spoken>>]
      BY <1>0, <2>1, <2>5, <3>3 DEF Texts
    <3>5. QED BY <2>1, <2>5, <3>4
  <2>6. QED BY <2>3, <2>4, <2>5
<1>6. CASE Ground \/ Format BY <1>6 DEF Ground, Format
<1>7. CASE UNCHANGED vars BY <1>0, <1>7 DEF vars, verdict
<1>8. QED BY <1>1, <1>2, <1>3, <1>4, <1>5, <1>6, <1>7 DEF Next

\* What ground concludes of a reply it left alone or edited, and format keeps.
LEMMA StepVerdict ==
  ASSUME GType, GroundingInv, [Next]_vars
  PROVE  VerdictStands'
<1>0. VerdictStands /\ ReplyIsKept /\ EvidenceIsFresh BY DEF GroundingInv
<1>1. CASE \/ Hear \/ Guard \/ UseTool \/ Propose \/ Answered \/ Reply \/ StopLooping
           \/ Readback \/ Parse
  BY <1>1
  DEF Hear, Guard, UseTool, Propose, ProposeSplit, ProposeBare, Answered, Reply,
      StopLooping, Readback, Parse, VerdictStands, ProposeSplit, ProposeBare, Confirm
<1>2. CASE Ground
  <2>1. PICK body \in SUBSET Sentence, edited \in BOOLEAN, replaced \in BOOLEAN :
          /\ text'.body = body
          /\ confidence' = ConfidenceFor(edited \/ replaced, \E s \in body : s.asserts)
          /\ reason' = (unknown \/ ((\E s \in body : s.asserts)
                                      /\ (retrieved = {} \/ edited \/ replaced)))
          /\ ~edited /\ ~replaced => body = text.body
    BY <1>2, GroundStep DEF GType
  <2> DEFINE asserts == \E s \in body : s.asserts
             rewritten == edited \/ replaced
             AtMost(n) == confidence' # NoNumber /\ confidence' <= n
  <2>2. /\ phase = "ground" /\ retrieved = fetched
        /\ UNCHANGED <<tier, reply, unknown, fetched>>
    BY <1>0, <1>2 DEF Ground, EvidenceIsFresh, evidence
  <2>3. body # reply.body => rewritten \/ body = {}
    <3>1. text.body = reply.body \/ text.body = {}
      BY <1>0, <2>2, FixedTexts DEF ReplyIsKept, GType, Texts
    <3>2. QED BY <2>1, <3>1
  <2>4. /\ Heard => modelConfidence = Head(reply.wrap).claims /\ unknown = Head(reply.wrap).unknown
        /\ ~tier /\ Holding(reply.wrap, {"call"}) => unknown
    BY <1>0, <2>2 DEF ReplyIsKept
  <2>5. /\ modelConfidence \in Confidences /\ NoNumber \notin Nat /\ unknown \in BOOLEAN
    BY GroundingAssumption DEF GType, GroundingTypeOK
  <2>6. confidence' = ConfidenceFor(rewritten, asserts) BY <2>1
  <2>7. unknown => confidence' = 0 /\ reason' BY <2>1 DEF ConfidenceFor
  <2>8. asserts /\ (retrieved = {} \/ rewritten) => reason' BY <2>1
  <2> HIDE DEF asserts, rewritten
  <2>9. modelConfidence # NoNumber => AtMost(modelConfidence)
    BY <2>5, <2>6 DEF ConfidenceFor, Capped, Confidences, UngroundedCap, RewrittenCap,
       GroundedCap
  <2>10. asserts => AtMost(GroundedCap)
    BY <2>5, <2>6 DEF ConfidenceFor, Capped, Confidences, UngroundedCap, RewrittenCap,
       GroundedCap
  <2>11. asserts /\ retrieved = {} => AtMost(UngroundedCap)
    BY <2>5, <2>6 DEF ConfidenceFor, Capped, Confidences, UngroundedCap
  <2>12. asserts /\ rewritten => AtMost(RewrittenCap)
    BY <2>5, <2>6 DEF ConfidenceFor, Capped, Confidences, UngroundedCap, RewrittenCap
  <2>13. Earned'
    <3>1. (\E s \in text.body : s.asserts)' = asserts BY <2>1 DEF asserts
    <3>2. WasCut' /\ asserts => rewritten BY <2>1, <2>2, <2>3 DEF WasCut, asserts
    <3>3. Heard' = Heard BY <2>2 DEF Heard, Holding
    <3>4. /\ Heard' /\ Head(reply'.wrap).unknown => confidence' = 0
          /\ Heard' /\ Head(reply'.wrap).claims # NoNumber => AtMost(Head(reply'.wrap).claims)
          /\ ~tier' /\ Holding(reply'.wrap, {"call"}) => confidence' = 0
      BY <2>2, <2>4, <2>7, <2>9, <3>3 DEF Holding
    <3>5. /\ asserts /\ fetched' = {} => AtMost(UngroundedCap) /\ reason'
          /\ asserts /\ WasCut' => AtMost(RewrittenCap) /\ reason'
      BY <2>2, <2>8, <2>11, <2>12, <3>2
    <3>6. QED
      BY <2>10, <3>1, <3>4, <3>5 DEF Earned, UngroundedCap, RewrittenCap, GroundedCap, Holding
  <2>14. QED BY <2>13 DEF VerdictStands
<1>3. CASE Format
  <2>1. text'.body = text.body BY <1>3 DEF Format, GType, GroundingTypeOK, Texts
  <2>2. phase = "format" /\ UNCHANGED <<tier, reply, unknown, fetched, confidence, reason>>
    BY <1>3 DEF Format, evidence, verdict
  <2>3. QED
    BY <1>0, <2>1, <2>2
    DEF VerdictStands, Earned, Heard, Holding, WasCut, UngroundedCap, RewrittenCap, GroundedCap
<1>4. CASE UNCHANGED vars
  BY <1>0, <1>4
  DEF vars, evidence, verdict, VerdictStands, Earned, Heard, Holding, WasCut, UngroundedCap,
      RewrittenCap, GroundedCap
<1>5. QED BY <1>1, <1>2, <1>3, <1>4 DEF Next

\* GroundingInv is inductive, given the types.
LEMMA GroundingInvariance == Spec => []GroundingInv
<1>1. Init => GroundingInv BY InitGrounding
<1>2. GType /\ GroundingInv /\ [Next]_vars => GroundingInv'
  BY StepEvidence, StepText, StepReply, StepVerdict DEF GroundingInv
<1>3. QED BY <1>1, <1>2, TypeInvariance, PTL DEF Spec

\* nodes.py:1101: sources are "what the answer actually used, and nothing else".
\* In every conversation, an answer rests on what its turn obtained: amounts,
\* citations, policy numbers and comparisons alike; and a question put before
\* filing shows no number and no amount but the user's own and those of, or
\* computed from, the section it cites.
THEOREM ShownRestsOnEvidence == Spec => []ShownIsGrounded
<1>1. GroundingInv => ShownIsGrounded
  BY DEF GroundingInv, EvidenceIsFresh, TextIsGrounded, ShownIsGrounded
<1>2. QED BY <1>1, GroundingInvariance, PTL

\* nodes.py:1007-1008: a model's number "can only lower the result, never raise
\* it".  The confidence published is within the claim that parse heard, in the
\* outermost object and under a key of its own, and within the cap its evidence
\* allows.
THEOREM ConfidenceRestsOnEvidence == Spec => []ConfidenceIsEarned
<1>1. GroundingInv => ConfidenceIsEarned
  BY DEF GroundingInv, VerdictStands, ConfidenceIsEarned
<1>2. QED BY <1>1, GroundingInvariance, PTL

-----------------------------------------------------------------------------
\* Of a reply within reach, ground hands over what format opens, unless it has cut
\* into it or a read-back stands before it.
EnvelopeInv ==
  /\ phase = "format" /\ WithinReach(reply.wrap) =>
       Opened(text.wrap, TextKeys) = <<>> \/ text.wrap = <<Spoken>> \/ WasCut
  /\ EnvelopesComeOff

\* Within reach is what the two nodes open one after the other.
LEMMA ReachIsOpened ==
  ASSUME NEW w \in Seq(Layer), WithinReach(w), ~Holding(w, {"call"})
  PROVE  Opened(Opened(w, AnswerKeys), TextKeys) = <<>>
<1>0. AnswerKeys \subseteq TextKeys BY DEF AnswerKeys, TextKeys
<1>1. CASE w = <<>> BY <1>1 DEF Opened, Holding
<1>2. CASE Len(w) = 1 /\ Holding(w, TextKeys)
  <2>1. w # <<>> /\ Tail(w) = <<>>
    <3>1. w # <<>> BY <1>2 DEF Holding
    <3>2. Tail(w) \in Seq(Layer) /\ Len(Tail(w)) = 0 BY <1>2, <3>1, HeadTailProperties
    <3>3. QED BY <3>1, <3>2, EmptySeq
  <2>2. QED BY <1>2, <2>1 DEF Opened, Holding
<1>3. CASE Len(w) = 2 /\ Holding(w, AnswerKeys) /\ w[2].key \in TextKeys
  <2> DEFINE v == Tail(w)
  <2>1. w # <<>> /\ Opened(w, AnswerKeys) = v BY <1>3 DEF Opened, Holding
  <2>2. v \in Seq(Layer) /\ Len(v) = 1 /\ v[1] = w[2]
    <3>1. v \in Seq(Layer) /\ Len(v) = 1 BY <1>3, <2>1, HeadTailProperties
    <3>2. \A i \in 1 .. Len(v) : v[i] = w[i + 1] BY <2>1, HeadTailProperties
    <3> HIDE DEF v
    <3>3. 1 \in 1 .. Len(v) BY <3>1
    <3>4. v[1] = w[1 + 1] BY <3>2, <3>3
    <3>5. QED BY <3>1, <3>4
  <2> HIDE DEF v
  <2>3. v # <<>> /\ Head(v) = v[1] BY <2>2
  <2>4. Tail(v) \in Seq(Layer) /\ Len(Tail(v)) = 0 BY <2>2, <2>3, HeadTailProperties
  <2>5. Tail(v) = <<>> BY <2>4, EmptySeq
  <2>6. QED BY <1>3, <2>1, <2>2, <2>3, <2>5 DEF Opened, Holding
<1>4. QED BY <1>1, <1>2, <1>3 DEF WithinReach

\* Cutting out citations twice cuts no more, so a text of which something was cut
\* or dropped is not the one there was.
LEMMA EditsShow ==
  ASSUME NEW body \in SUBSET Sentence,
         Cut(body) # body \/ TrueOf(Cut(body)) # Cut(body)
  PROVE  TrueOf(Cut(body)) # body
<1> DEFINE f(s) == [s EXCEPT !.cites = {c \in @ : Real(c, retrieved)}]
<1> SUFFICES ASSUME TrueOf(Cut(body)) = body PROVE FALSE
  OBVIOUS
<1>1. body \subseteq Cut(body) BY DEF TrueOf
<1>2. \A s \in body : f(f(s)) = f(s)
  <2> SUFFICES ASSUME NEW s \in body PROVE f(f(s)) = f(s)
    OBVIOUS
  <2> DEFINE kept == {c \in s.cites : Real(c, retrieved)}
  <2>1. {c \in kept : Real(c, retrieved)} = kept OBVIOUS
  <2>2. f(s) = [s EXCEPT !.cites = kept] OBVIOUS
  <2> HIDE DEF kept
  <2>3. s \in Sentence OBVIOUS
  <2>4. f(s).cites = kept BY <2>2, <2>3 DEF Sentence
  <2>5. f(f(s)) = [f(s) EXCEPT !.cites = kept] BY <2>1, <2>4
  <2>6. QED BY <2>2, <2>3, <2>5 DEF Sentence
<1>3. Cut(body) = {f(s) : s \in body} BY DEF Cut
<1> HIDE DEF f
<1>4. \A s \in body : f(s) = s
  <2> SUFFICES ASSUME NEW s \in body PROVE f(s) = s
    OBVIOUS
  <2>1. PICK t \in body : s = f(t) BY <1>1, <1>3
  <2>2. QED BY <1>2, <2>1
<1>5. Cut(body) = body BY <1>3, <1>4
<1>6. QED BY <1>5

\* Only ground and format can leave an envelope the invariant does not allow.
LEMMA StepEnvelope ==
  ASSUME GType, GroundingInv, EnvelopeInv, [Next]_vars
  PROVE  EnvelopeInv'
<1> USE DEF EnvelopeInv, EnvelopesComeOff
<1>0. EnvelopeInv /\ ReplyIsKept /\ text \in Texts /\ reply \in Texts
  BY DEF GroundingInv, GType, GroundingTypeOK
<1>1. CASE \/ Hear \/ Guard \/ UseTool \/ Propose \/ Answered \/ Reply \/ StopLooping
           \/ Readback \/ Parse
  BY <1>1
  DEF Hear, Guard, UseTool, Propose, ProposeSplit, ProposeBare, Confirm, Answered, Reply,
      StopLooping, Readback, Parse
<1>2. CASE Ground
  <2> DEFINE cut == Cut(text.body)
             kept == TrueOf(cut)
             replaced == \/ \E s \in kept : ~(s.numbers \subseteq stated \cup produced)
                         \/ \E s \in kept : s.estimates
             edited == cut # text.body \/ kept # cut
  <2>1. /\ phase = "ground" /\ phase' = "format" /\ reply' = reply
        /\ text' \in [wrap : IF replaced THEN {<<>>}
                             ELSE {text.wrap} \cup (IF edited THEN Cracked(text.wrap) ELSE {}),
                      body : {IF replaced THEN {} ELSE kept}]
    BY <1>2 DEF Ground
  <2>2. edited => kept # text.body BY <1>0, EditsShow DEF Texts
  <2> HIDE DEF replaced, edited, kept
  <2>3. \/ text'.wrap = <<>>
        \/ text'.wrap = text.wrap
        \/ edited /\ ~replaced /\ text'.wrap \in Cracked(text.wrap)
    BY <2>1
  <2>4. ~replaced => text'.body = kept BY <2>1
  <2>5. SUFFICES ASSUME WithinReach(reply.wrap)
                 PROVE  Opened(text'.wrap, TextKeys) = <<>> \/ text'.wrap = <<Spoken>> \/ WasCut'
    BY <2>1 DEF WithinReach, Opened, Holding
  <2>6. CASE text'.wrap = <<>> BY <2>6 DEF Opened, Holding
  <2>7. CASE text'.wrap = text.wrap
    <3>1. CASE text = [reply EXCEPT !.wrap = Opened(@, AnswerKeys)] /\ ~Holding(reply.wrap, {"call"})
      <4>1. reply.wrap \in Seq(Layer) /\ text.wrap = Opened(reply.wrap, AnswerKeys)
        BY <1>0, <3>1 DEF Texts
      <4>2. QED BY <2>5, <2>7, <3>1, <4>1, ReachIsOpened
    <3>2. CASE text = Fixed BY <2>7, <3>2, FixedTexts DEF Opened, Holding
    <3>3. CASE text = [reply EXCEPT !.wrap = <<Spoken>>]
      <4>1. text.wrap = <<Spoken>> BY <1>0, <3>3 DEF Texts
      <4>2. QED BY <2>7, <4>1
    <3>4. QED BY <1>0, <2>1, <3>1, <3>2, <3>3 DEF ReplyIsKept
  <2>8. CASE edited /\ ~replaced /\ text'.wrap \in Cracked(text.wrap)
    <3>1. CASE text.body = reply.body BY <2>1, <2>2, <2>4, <2>8, <3>1 DEF WasCut
    <3>2. CASE text = Fixed
      <4>1. DOMAIN text.wrap = {} BY <3>2, FixedTexts
      <4>2. QED BY <2>8, <4>1 DEF Cracked
    <3>3. text.body = reply.body \/ text = Fixed BY <1>0, <2>1 DEF ReplyIsKept, Texts
    <3>4. QED BY <3>1, <3>2, <3>3
  <2>9. QED BY <2>3, <2>6, <2>7, <2>8
<1>3. CASE Format
  <2>1. /\ phase = "format" /\ phase' = "done" /\ reply' = reply
        /\ text'.body = text.body /\ text'.wrap = Opened(text.wrap, TextKeys)
    BY <1>0, <1>3 DEF Format, Unwrapped, Texts
  <2>2. SUFFICES ASSUME WithinReach(reply.wrap)
                 PROVE  text'.wrap = <<>> \/ text'.wrap = <<Spoken>> \/ WasCut'
    BY <2>1 DEF WithinReach, Holding
  <2>3. <<>> \in Seq(Layer) OBVIOUS
  <2>4. Opened(<<Spoken>>, TextKeys) = <<Spoken>> BY <2>3, WrapTypes DEF Opened
  <2>5. QED BY <1>0, <2>1, <2>2, <2>4 DEF WasCut
<1>4. CASE UNCHANGED vars
  BY <1>0, <1>4 DEF vars, verdict, WasCut, WithinReach, Opened, Holding
<1>5. QED BY <1>1, <1>2, <1>3, <1>4 DEF Next

\* A reply in an object under a key that format knows, by itself or inside one whose
\* key parse knows, is shown as prose, whatever ground does to it in between,
\* unless a read-back was put before it or a sentence of it was cut.
THEOREM EnvelopesAreTakenOff == Spec => []EnvelopesComeOff
<1>1. Init => EnvelopeInv BY DEF Init, EnvelopeInv, EnvelopesComeOff
<1>2. GType /\ GroundingInv /\ EnvelopeInv /\ [Next]_vars => EnvelopeInv'
  BY StepEnvelope
<1>3. EnvelopeInv => EnvelopesComeOff BY DEF EnvelopeInv
<1>4. QED BY <1>1, <1>2, <1>3, TypeInvariance, GroundingInvariance, PTL DEF Spec
===============================================================================

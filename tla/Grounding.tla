------------------------------ MODULE Grounding ------------------------------
(***************************************************************************)
(* What stands between the model's words and the policyholder's screen     *)
(* (backend/agent/app/graph/nodes.py, backend/libs/guardrails/response.py):*)
(* the evidence a turn gathers, the reply as the model wrote it, and the   *)
(* nodes readback, parse, ground and format that decide what of it is      *)
(* shown, with which sources and which confidence.  Turns of one           *)
(* conversation follow each other; what a node leaves in the graph state   *)
(* is there for the next turn.                                             *)
(*                                                                         *)
(* A text is a set of sentences inside the JSON objects it is wrapped in,  *)
(* the outermost first.  Of a sentence the model keeps what the regular    *)
(* expressions find in it; a citation that is cut out takes nothing of its *)
(* sentence along.                                                         *)
(***************************************************************************)
EXTENDS Naturals, Sequences, FiniteSets

CONSTANTS
  Sections,     \* sections of the policy document
  States,       \* the amounts each section states
  Terms,        \* of these, the amounts a payment split is read from
  Sums,         \* amounts that may be claimed, in whole dollars as confirm compares them
  Shares,       \* the amounts a split computes from a claim and a section's terms
  PolicyNumbers,
  Sentences,    \* what the model may say
  Envelopes,    \* the objects it may wrap a reply in, one in another
  NoNumber,     \* confidence None
  MaxSentences, \* bound: sentences of a reply
  MaxIterations, \* model calls of a turn before the structural stop
  MaxTurns      \* bound: turns of the conversation

\* _ANSWER_KEYS, under which parse looks for prose, and _TEXT_KEYS, under which
\* format does; "answer" and "output" stand for the keys of either kind.
AnswerKeys == {"answer"}
TextKeys == {"answer", "output"}

\* An object around a reply: the key that holds the rest, "none" if neither node
\* knows it, or "call", a tool call written out; and what it says beside it of
\* the model's confidence, in percent, and of the policy having no answer.
Confidences == 0 .. 100 \cup {NoNumber}
Objects ==
  [key : {"answer", "output", "none", "call"}, claims : Confidences, unknown : BOOLEAN]

\* What may become of one: a read-back before it, or a cut into it.
Unreadable == [key : {"spoken", "broken"}, claims : {NoNumber}, unknown : {FALSE}]
Spoken == [key |-> "spoken", claims |-> NoNumber, unknown |-> FALSE]
Broken == [key |-> "broken", claims |-> NoNumber, unknown |-> FALSE]
Layer == Objects \cup Unreadable

\* A citation: the sections whose citation it begins, the sections its words name.
Citations == [begins : SUBSET Sections, names : SUBSET Sections]
Comparisons == [left : Nat, op : {"greater", "lesser"}, right : Nat]
Sentence ==
  [cites : SUBSET Citations, names : SUBSET Sections, amounts : SUBSET Nat,
   compares : SUBSET Comparisons, numbers : SUBSET PolicyNumbers,
   estimates : BOOLEAN, asserts : BOOLEAN]

\* A sentence compares two amounts at most once.
ASSUME GroundingAssumption ==
  /\ States \in [Sections -> SUBSET Nat]
  /\ Terms \in [Sections -> SUBSET Nat]
  /\ Sums \subseteq Nat
  /\ Shares \in [Sections -> [Sums -> SUBSET Nat]]
  /\ Sentences \subseteq Sentence
  /\ \A s \in Sentences : Cardinality(s.compares) <= 1
  /\ NoNumber \notin Nat
  /\ Envelopes \subseteq Seq(Objects)
  /\ MaxSentences \in Nat /\ MaxIterations \in Nat /\ MaxTurns \in Nat

VARIABLES
  phase,            \* the node to run; "asked": stopped at confirm; "done": answered
  turns,            \* turns so far
  iterations,       \* tool rounds of this turn, one tool in each
  stated, told,     \* policy numbers and amounts the user's messages contain
  tier,             \* confirmation_tier is 1: the answer begins with a read-back
  retrieved,        \* chunks: a section and the amounts in its text
  produced,         \* policy numbers in tool_invocations' results
  sources,
  text,             \* the last assistant message: objects around it, sentences
  modelConfidence, unknown, confidence, reason,
  fetched,          \* chunks this turn's tools and capture obtained
  looked,           \* policy numbers this turn's tools returned
  reply             \* this turn's reply as the model wrote it

given == <<stated, told>>
evidence == <<retrieved, produced, fetched, looked>>
verdict == <<modelConfidence, unknown, confidence, reason>>
vars ==
  <<phase, turns, iterations, given, tier, evidence, sources, text, verdict, reply>>

Chunks == [section : Sections, amounts : SUBSET Nat]
Texts == [wrap : Seq(Layer), body : SUBSET Sentence]
Fixed == [wrap |-> <<>>, body |-> {}]

Init ==
  /\ phase = "idle"
  /\ turns = 0
  /\ iterations = 0
  /\ stated = {} /\ told = {}
  /\ tier = FALSE
  /\ retrieved = {} /\ produced = {} /\ fetched = {} /\ looked = {}
  /\ sources = {}
  /\ text = Fixed
  /\ modelConfidence = NoNumber /\ unknown = FALSE
  /\ confidence = NoNumber /\ reason = FALSE
  /\ reply = Fixed

------------------------------------------------------------------------------
\* A message starts a turn.
Hear ==
  /\ phase \in {"idle", "done"}
  /\ turns < MaxTurns
  /\ turns' = turns + 1
  /\ \E said \in SUBSET PolicyNumbers : stated' = stated \cup said
  /\ \E sums \in SUBSET Sums : told' = told \cup sums
  /\ phase' = "guard"
  /\ fetched' = {} /\ looked' = {}
  /\ reply' = Fixed
  /\ UNCHANGED <<iterations, tier, retrieved, produced, sources, text, verdict>>

\* Mutant of Guard: what the last turn retrieved is kept.
GuardKeepsEvidence ==
  /\ phase = "guard"
  /\ sources' = {}
  /\ \/ phase' = "agent" /\ tier' \in BOOLEAN /\ iterations' = 0 /\ UNCHANGED text
     \/ phase' = "parse" /\ tier' = FALSE /\ text' = Fixed /\ UNCHANGED iterations
  /\ UNCHANGED <<turns, given, evidence, verdict, reply>>

\* Per-turn outputs are cleared; a blocked message gets the refusal.  On the
\* voice channel a message heard well that holds an identifier is of tier 1.
Guard ==
  /\ phase = "guard"
  /\ retrieved' = {} /\ produced' = {} /\ sources' = {}
  /\ \/ phase' = "agent" /\ tier' \in BOOLEAN /\ iterations' = 0 /\ UNCHANGED text
     \/ phase' = "parse" /\ tier' = FALSE /\ text' = Fixed /\ UNCHANGED iterations
  /\ UNCHANGED <<turns, given, fetched, looked, verdict, reply>>

Obtain(chunks, numbers) ==
  /\ retrieved' = retrieved \cup chunks
  /\ fetched' = fetched \cup chunks
  /\ produced' = produced \cup numbers
  /\ looked' = looked \cup numbers

\* search_policy_documents returns some sections whole.
Search ==
  \E found \in SUBSET Sections :
    Obtain({[section |-> s, amounts |-> States[s]] : s \in found}, {})

\* estimate_claim_payment: the sentences its figures were read from.
Estimate ==
  \E s \in Sections :
    /\ Terms[s] # {}
    /\ Obtain({[section |-> s, amounts |-> Terms[s]]}, {})

\* get_claim_status returns the claim's policy number.
LookUp == \E p \in PolicyNumbers : Obtain({}, {p})

UseTool ==
  /\ phase = "agent"
  /\ iterations < MaxIterations
  /\ iterations' = iterations + 1
  /\ Search \/ Estimate \/ LookUp
  /\ UNCHANGED <<phase, turns, given, tier, sources, text, verdict, reply>>

\* The arguments of submit_claim, as far as confirm checks them; the model may
\* leave one out.
Arguments ==
  [numbers : {{}} \cup {{p} : p \in PolicyNumbers}, sums : {{}} \cup {{a} : a \in Sums}]

\* What confirm asks: the claim's number and amount and, of the split, the terms
\* and what it computes from them.
Question(args, figures) ==
  [cites |-> {}, names |-> {}, amounts |-> args.sums \cup figures, compares |-> {},
   numbers |-> args.numbers, estimates |-> FALSE, asserts |-> FALSE]

\* Mutant of Confirm: the amount is not asked back.
ConfirmAnyAmount(args, figures) ==
  \/ /\ args.numbers \subseteq stated
     /\ phase' = "asked"
     /\ text' = [Fixed EXCEPT !.body = {Question(args, figures)}]
  \/ /\ ~(args.numbers \subseteq stated)
     /\ phase' = "parse"
     /\ text' = Fixed

\* A number or an amount the user never gave is demanded instead of asked about.
Confirm(args, figures) ==
  \/ /\ args.numbers \subseteq stated /\ args.sums \subseteq told
     /\ phase' = "asked"
     /\ text' = [Fixed EXCEPT !.body = {Question(args, figures)}]
  \/ /\ ~(args.numbers \subseteq stated /\ args.sums \subseteq told)
     /\ phase' = "parse"
     /\ text' = Fixed

\* capture reads the split off the policy and makes its section a source.
ProposeSplit(args) ==
  \E s \in Sections, a \in args.sums :
    /\ Terms[s] # {}
    /\ Obtain({[section |-> s, amounts |-> Terms[s]]}, {})
    /\ sources' = {s}
    /\ Confirm(args, Terms[s] \cup Shares[s][a])

\* The policy has no terms for the claim, or capture could not read it.
ProposeBare(args) == Confirm(args, {}) /\ UNCHANGED <<evidence, sources>>

\* submit_claim goes to capture and from there to confirm.
Propose ==
  /\ phase = "agent"
  /\ iterations < MaxIterations
  /\ iterations' = iterations + 1
  /\ \E args \in Arguments : ProposeSplit(args) \/ ProposeBare(args)
  /\ UNCHANGED <<turns, given, tier, verdict, reply>>

\* The next message answers confirm; it does not join the message history.
Answered ==
  /\ phase = "asked"
  /\ turns < MaxTurns
  /\ turns' = turns + 1
  /\ phase' \in {"agent", "parse"}
  /\ text' = Fixed
  /\ UNCHANGED <<iterations, given, tier, evidence, sources, verdict, reply>>

\* Anything the model may write as its reply.
Bodies == {B \in SUBSET Sentences : Cardinality(B) \in 1 .. MaxSentences}
Replies == [wrap : Envelopes, body : Bodies]

Reply ==
  /\ phase = "agent"
  /\ iterations < MaxIterations
  /\ reply' \in Replies
  /\ text' = reply'
  /\ phase' = "readback"
  /\ UNCHANGED <<turns, iterations, given, tier, evidence, sources, verdict>>

\* The structural stop: an apology in place of a reply.
StopLooping ==
  /\ phase = "agent"
  /\ iterations = MaxIterations
  /\ text' = Fixed
  /\ phase' = "readback"
  /\ UNCHANGED <<turns, iterations, given, tier, evidence, sources, verdict, reply>>

\* A prefix before the text, unless it is already there.
Readback ==
  /\ phase = "readback"
  /\ \/ UNCHANGED text
     \/ /\ tier
        /\ text.wrap # <<>>
        /\ text' = [text EXCEPT !.wrap = <<Spoken>>]
  /\ phase' = "parse"
  /\ UNCHANGED <<turns, iterations, given, tier, evidence, sources, verdict, reply>>

------------------------------------------------------------------------------
\* The outermost object has one of the keys; if so, what is under it is taken.
Holding(wrap, keys) == wrap # <<>> /\ Head(wrap).key \in keys
Opened(wrap, keys) == IF Holding(wrap, keys) THEN Tail(wrap) ELSE wrap

\* What the outermost object says of the reply is recorded if parse knows its key;
\* a tool call written out is replaced by an apology and counts as unknown.
Parse ==
  /\ phase = "parse"
  /\ LET called == Holding(text.wrap, {"call"})
         heard == Holding(text.wrap, AnswerKeys)
     IN  /\ text' = IF called THEN Fixed
                    ELSE [text EXCEPT !.wrap = Opened(@, AnswerKeys)]
         /\ modelConfidence' = IF called THEN 0
                               ELSE IF heard THEN Head(text.wrap).claims ELSE NoNumber
         /\ unknown' = (called \/ (heard /\ Head(text.wrap).unknown))
  /\ phase' = "ground"
  /\ UNCHANGED <<turns, iterations, given, tier, evidence, sources, confidence, reason, reply>>

SectionsOf(chunks) == {c.section : c \in chunks}

\* _citation_spans: in full or abbreviated, it fits exactly one of them.
Real(cite, chunks) == Cardinality(cite.begins \cap SectionsOf(chunks)) = 1

\* _contradicts_itself
Holds(c) == IF c.op = "greater" THEN c.left > c.right ELSE c.left < c.right
Contradicts(s) == \E c \in s.compares : ~Holds(c)

Cut(body) == {[s EXCEPT !.cites = {c \in @ : Real(c, retrieved)}] : s \in body}
TrueOf(body) == {s \in body : ~Contradicts(s)}

\* _named_sections
Named(body) ==
  {t \in SectionsOf(retrieved) :
     \E s \in body : t \in s.names \/ \E c \in s.cites : t \in c.names}

\* _sections_by_figure: of the amounts quoted, those only one section states.
Quoted(body) ==
  {c.section : c \in {c \in retrieved :
     \E s \in body : \E a \in s.amounts \cap c.amounts :
       \A d \in retrieved : a \in d.amounts => d.section = c.section}}

\* The sections named or quoted, and everything retrieved if there is none.
Attributed(body) ==
  LET found == Named(body) \cup Quoted(body)
  IN  IF found = {} THEN SectionsOf(retrieved) ELSE found

UngroundedCap == 30
RewrittenCap == 50
GroundedCap == 85
Capped(claimed, cap) == IF claimed = NoNumber \/ claimed > cap THEN cap ELSE claimed

\* Mutant of ConfidenceFor: what was retrieved counts before what was removed.
ConfidenceOnRetrieval(rewritten, asserts) ==
  IF unknown THEN 0
  ELSE IF ~asserts THEN modelConfidence
  ELSE IF retrieved = {} THEN Capped(modelConfidence, UngroundedCap)
  ELSE Capped(modelConfidence, GroundedCap)

\* _confidence_for
ConfidenceFor(rewritten, asserts) ==
  IF unknown THEN 0
  ELSE IF ~asserts THEN modelConfidence
  ELSE IF retrieved = {} THEN Capped(modelConfidence, UngroundedCap)
  ELSE IF rewritten THEN Capped(modelConfidence, RewrittenCap)
  ELSE Capped(modelConfidence, GroundedCap)

\* An edit may cut into any of the objects around the text.
Cracked(wrap) == {[wrap EXCEPT ![n] = Broken] : n \in DOMAIN wrap}

\* Citations nobody retrieved are cut out and false comparisons dropped; a policy
\* number or an amount of the model's making replaces the whole text.
Ground ==
  LET cut == Cut(text.body)
      kept == TrueOf(cut)
      guessed == \E s \in kept : ~(s.numbers \subseteq stated \cup produced)
      replaced == guessed \/ \E s \in kept : s.estimates
      edited == cut # text.body \/ kept # cut
      body == IF replaced THEN {} ELSE kept
      asserts == \E s \in body : s.asserts
  IN  /\ phase = "ground"
      /\ text' \in [wrap : IF replaced THEN {<<>>}
                           ELSE {text.wrap} \cup (IF edited THEN Cracked(text.wrap) ELSE {}),
                    body : {body}]
      /\ sources' = Attributed(body)
      /\ confidence' = ConfidenceFor(edited \/ replaced, asserts)
      /\ reason' = (unknown \/ (asserts /\ (retrieved = {} \/ edited \/ replaced)))
      /\ phase' = "format"
      /\ UNCHANGED <<turns, iterations, given, tier, evidence, modelConfidence, unknown, reply>>

\* Mutant of Unwrapped: format knows no key that parse does not.
UnwrappedAnswer(wrap) == Opened(wrap, AnswerKeys)

\* unwrap_json
Unwrapped(wrap) == Opened(wrap, TextKeys)

Format ==
  /\ phase = "format"
  /\ text' = [text EXCEPT !.wrap = Unwrapped(@)]
  /\ phase' = "done"
  /\ UNCHANGED <<turns, iterations, given, tier, evidence, sources, verdict, reply>>

Next ==
  \/ Hear
  \/ Guard
  \/ UseTool
  \/ Propose
  \/ Answered
  \/ Reply
  \/ StopLooping
  \/ Readback
  \/ Parse
  \/ Ground
  \/ Format

Spec == Init /\ [][Next]_vars

-----------------------------------------------------------------------------
\* Type invariant: in particular every confidence is a share of certainty, and
\* what a turn cites was among the sections of the document.
GroundingTypeOK ==
  /\ phase \in {"idle", "guard", "agent", "asked", "readback", "parse", "ground",
                "format", "done"}
  /\ turns \in 0 .. MaxTurns
  /\ iterations \in 0 .. MaxIterations
  /\ stated \in SUBSET PolicyNumbers
  /\ told \in SUBSET Sums
  /\ tier \in BOOLEAN
  /\ retrieved \subseteq Chunks
  /\ fetched \subseteq Chunks
  /\ produced \subseteq PolicyNumbers
  /\ looked \subseteq PolicyNumbers
  /\ sources \subseteq Sections
  /\ text \in Texts
  /\ modelConfidence \in Confidences
  /\ confidence \in Confidences
  /\ unknown \in BOOLEAN
  /\ reason \in BOOLEAN

\* An amount that one section alone of those this turn obtained states is shown
\* with that section among the sources.
AmountsAreSourced ==
  \A s \in text.body : \A a \in s.amounts : \A t \in Sections :
    SectionsOf({c \in fetched : a \in c.amounts}) = {t} => t \in sources

\* Every citation shown fits exactly one section this turn obtained, and where
\* its words name that section, it is among the sources.
CitationsAreReal ==
  \A s \in text.body : \A c \in s.cites :
    /\ Cardinality(c.begins \cap SectionsOf(fetched)) = 1
    /\ c.names \cap SectionsOf(fetched) \subseteq sources

\* A policy number shown was given by the user at some time or returned by a
\* tool in this turn.
NumbersHaveAnOwner ==
  \A s \in text.body : s.numbers \subseteq stated \cup looked

\* Nothing shown puts two amounts in the wrong order or estimates a claim.
AmountsAreSound ==
  \A s \in text.body : ~s.estimates /\ \A c \in s.compares : Holds(c)

\* Every amount is the user's own, or in a text this turn obtained from a section
\* among the sources, or computed from such terms and an amount of the user's.
AmountsAreAccounted ==
  \A s \in text.body : \A a \in s.amounts :
    \/ a \in told
    \/ \E c \in fetched :
         /\ c.section \in sources
         /\ a \in c.amounts \/ \E sum \in told : a \in Shares[c.section][sum]

\* What an answer shows, when ground has seen it, and what confirm asks, which
\* ground never sees, rest on what the user said and this turn obtained, whatever
\* earlier turns left in the graph state and however the model put its reply.  An
\* answer quotes no section's own amount without naming the section as a source;
\* a question has no amount that the user or a cited section does not account for.
ShownIsGrounded ==
  /\ phase \in {"asked", "done"} =>
       sources \subseteq SectionsOf(fetched) /\ NumbersHaveAnOwner
  /\ phase = "done" => AmountsAreSourced /\ CitationsAreReal /\ AmountsAreSound
  /\ phase = "asked" => AmountsAreAccounted

\* Something of the reply was removed before it was shown.
WasCut == text.body # reply.body

\* What the outermost object of the reply says is heard where parse knows its key
\* and no read-back stands before it.
Heard == ~tier /\ Holding(reply.wrap, AnswerKeys)

\* What a confidence owes to the model's claim and to the evidence.
Earned ==
  LET asserts == \E s \in text.body : s.asserts
      AtMost(n) == confidence # NoNumber /\ confidence <= n
  IN  /\ Heard /\ Head(reply.wrap).unknown => confidence = 0
      /\ Heard /\ Head(reply.wrap).claims # NoNumber => AtMost(Head(reply.wrap).claims)
      /\ ~tier /\ Holding(reply.wrap, {"call"}) => confidence = 0
      /\ asserts => AtMost(GroundedCap)
      /\ asserts /\ fetched = {} => AtMost(UngroundedCap) /\ reason
      /\ asserts /\ WasCut => AtMost(RewrittenCap) /\ reason

\* The confidence shown is within what the model claimed under a key parse knows
\* of a reply that was not read back, and 0 where it said there that the policy
\* has no answer or wrote a tool call out; and it is within what the evidence
\* carries: at most 0.3, with a reason, for cover asserted without a section
\* obtained in this turn; 0.5, with a reason, where something was removed; 0.85
\* otherwise.  A claim under a key that format alone knows, in an inner object or
\* behind a read-back bounds nothing.
ConfidenceIsEarned == phase = "done" => Earned

\* What parse and format can take off between them: one object with a key that
\* format knows, inside another whose key parse knows; or a tool call.
WithinReach(wrap) ==
  \/ wrap = <<>> \/ Holding(wrap, {"call"})
  \/ Len(wrap) = 1 /\ Holding(wrap, TextKeys)
  \/ Len(wrap) = 2 /\ Holding(wrap, AnswerKeys) /\ wrap[2].key \in TextKeys

\* A reply in objects within the reach of parse and format is shown as prose, unless
\* a read-back was put before it or a cut broke it.  Of any other nesting the
\* user is shown an object.
EnvelopesComeOff ==
  phase = "done" /\ WithinReach(reply.wrap) =>
    text.wrap = <<>> \/ text.wrap = <<Spoken>> \/ WasCut

-----------------------------------------------------------------------------
\* The inductive invariant behind ShownIsGrounded and ConfidenceIsEarned.

\* A turn starts without evidence; from guard on the state's is the turn's own.
EvidenceIsFresh ==
  IF phase = "guard" THEN fetched = {} /\ looked = {}
  ELSE /\ retrieved = fetched /\ produced = looked
       /\ sources \subseteq SectionsOf(fetched)

\* What format is handed is grounded already, and so is a question.
TextIsGrounded ==
  /\ phase \in {"asked", "format", "done"} => NumbersHaveAnOwner
  /\ phase \in {"format", "done"} => AmountsAreSourced /\ CitationsAreReal /\ AmountsAreSound
  /\ phase = "asked" => AmountsAreAccounted

\* Up to parse the text is the reply, read back or not; ground finds it opened, or
\* behind its read-back, or the apology for a tool call.
ReplyIsKept ==
  /\ phase \in {"idle", "guard", "agent", "asked"} => reply = Fixed
  /\ phase \in {"readback", "parse"} =>
       text = reply \/ (tier /\ text = [reply EXCEPT !.wrap = <<Spoken>>])
  /\ phase = "ground" =>
       \/ /\ text = [reply EXCEPT !.wrap = Opened(@, AnswerKeys)]
          /\ ~Holding(reply.wrap, {"call"})
       \/ text = Fixed /\ Holding(reply.wrap, {"call"})
       \/ tier /\ text = [reply EXCEPT !.wrap = <<Spoken>>]
  /\ phase = "ground" /\ Heard =>
       modelConfidence = Head(reply.wrap).claims /\ unknown = Head(reply.wrap).unknown
  /\ phase = "ground" /\ ~tier /\ Holding(reply.wrap, {"call"}) => unknown

\* What ground concludes stands when format is done.
VerdictStands == phase \in {"format", "done"} => Earned

GroundingInv == EvidenceIsFresh /\ TextIsGrounded /\ ReplyIsKept /\ VerdictStands
==============================================================================

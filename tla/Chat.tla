---------------------------------- MODULE Chat ----------------------------------
(***************************************************************************)
(* The quality chatbot: one chat page (the conversation it shows, the      *)
(* conversation it loads, the question it has sent), the stored            *)
(* conversations, and the handler of a question, which lets a language     *)
(* model write a pipeline, rewrites and runs it, lets the model sum up the *)
(* result, and stores question and answer.                                 *)
(*                                                                         *)
(* A question is a number, the same for its answer.  A pipeline is the     *)
(* sequence of its stages by kind, here the kinds sanitizePipeline tells   *)
(* apart; what the model writes is any pipeline.                           *)
(***************************************************************************)
EXTENDS Naturals, Sequences, SequencesExt, FiniteSets, Lists

CONSTANTS
    Conversation,   \* ids of conversations, never used again
    MaxQuestions,   \* bound: questions asked
    MaxVisits,      \* bound: conversations opened, left and deleted
    MaxStages       \* bound: stages of a pipeline the model writes (20 in the code)

ASSUME ChatAssumption == MaxQuestions \in Nat /\ MaxVisits \in Nat /\ MaxStages \in Nat

VARIABLES
    stored,      \* chat_sessions: turns by conversation
    listed,      \* the sessions of the sidebar
    shown,       \* the page: the conversation (empty: new), and its messages
    question,    \* POST /api/ai/chat in progress
    opening,     \* GET /api/ai/chat/:id in progress
    asked, visits,
    unstored,    \* history: answers that could not be stored
    missed,      \* history: stored answers that did not reach the page
    mixed        \* history: the page holds what does not belong to its conversation

chatVars == <<stored, listed, shown, question, opening, asked, visits, unstored, missed, mixed>>

Entry == [kind : {"user", "answer", "waiting", "error"}, no : 0..MaxQuestions]
PipelineStage == {"match", "group", "limit", "forbidden"}
NewChat == [conversation |-> {}, messages |-> << >>]
NoQuestion == [at |-> "idle", no |-> 0, sentTo |-> {}, conversation |-> {}, seen |-> {},
               said |-> << >>, pipeline |-> << >>]
NoOpening == [at |-> "idle", conversation |-> {}, history |-> << >>]
UserSaid(n) == [kind |-> "user", no |-> n]
Answered(n) == [kind |-> "answer", no |-> n]
Waiting(n) == [kind |-> "waiting", no |-> n]
Error == [kind |-> "error", no |-> 0]

ChatTypeOK ==
    /\ DOMAIN stored \subseteq Conversation /\ \A c \in DOMAIN stored : stored[c] \in Seq(Entry)
    /\ listed \subseteq Conversation
    /\ shown.conversation \subseteq Conversation /\ Cardinality(shown.conversation) <= 1
    /\ shown.messages \in Seq(Entry)
    /\ question.at \in {"idle", "sent", "queried", "stored", "lost", "refused"}
    /\ question.conversation \subseteq Conversation /\ question.seen \subseteq 1..MaxQuestions
    /\ opening.at \in {"idle", "asked", "found", "failed"} /\ opening.history \in Seq(Entry)
    /\ asked \in 0..MaxQuestions /\ visits \in 0..MaxVisits
    /\ unstored \subseteq 1..asked /\ missed \subseteq 1..asked /\ mixed \in BOOLEAN

ChatInit ==
    /\ stored = << >> /\ listed = {} /\ shown = NewChat
    /\ question = NoQuestion /\ opening = NoOpening
    /\ asked = 0 /\ visits = 0 /\ unstored = {} /\ missed = {} /\ mixed = FALSE

History(c) == IF c \in DOMAIN stored THEN stored[c] ELSE << >>
With(turns, c) == [d \in DOMAIN stored \cup {c} |-> IF d = c THEN turns ELSE stored[d]]
Quiet == question.at = "idle" /\ opening.at = "idle"

\* handleSubmit: one question at a time, and none while a conversation loads.
Ask ==
    /\ asked < MaxQuestions /\ asked' = asked + 1
    /\ Quiet
    /\ shown' = [shown EXCEPT !.messages = @ \o <<UserSaid(asked'), Waiting(asked')>>]
    /\ question' = [NoQuestion EXCEPT !.at = "sent", !.no = asked', !.sentTo = shown.conversation]
    /\ UNCHANGED <<stored, listed, opening, visits, unstored, missed, mixed>>

\* Kinds of stages: a "$match" may come anywhere.
PipelineRefused(p) == p = << >> \/ \E i \in DOMAIN p : p[i] = "forbidden"

\* Mutant of Scoped: the organization is set in the first match, which stays where it is.
ScopedInPlace(p) ==
    IF \E i \in DOMAIN p : p[i] = "match"
    THEN LET first == SelectInSeq(p, LAMBDA s : s = "match")
         IN  [p EXCEPT ![first] = "orgMatch"]
    ELSE <<"orgMatch">> \o p

\* The first match gets the organization and moves to the front; without one, a match
\* on the organization is put there.
Scoped(p) ==
    LET first == SelectInSeq(p, LAMBDA s : s = "match")
    IN  <<"orgMatch">> \o (IF first = 0 THEN p ELSE RemoveAt(p, first))

\* sanitizePipeline: scope, a limit if there is none, redaction after the first stage.
Sanitized(p) ==
    LET scoped == Scoped(p)
        limited == IF \E i \in DOMAIN scoped : scoped[i] = "limit" THEN scoped ELSE Append(scoped, "limit")
    IN  InsertAt(limited, 2, "unset")

\* The history is read, the model writes a pipeline, and the sanitized one is run.  The
\* handler may refuse: flag off, no key, no JSON, collection or pipeline not allowed, 500.
Query ==
    /\ question.at = "sent"
    /\ \E c \in IF question.sentTo = {} THEN Conversation \ (DOMAIN stored \cup listed) ELSE question.sentTo :
       \E p \in SeqOf(PipelineStage, MaxStages) :
            IF PipelineRefused(p)
            THEN question' = [question EXCEPT !.at = "refused"]
            ELSE question' = [question EXCEPT !.at = "queried", !.conversation = {c},
                                !.seen = {History(c)[i].no : i \in DOMAIN History(c)},
                                !.said = p, !.pipeline = Sanitized(p)]
    /\ UNCHANGED <<stored, listed, shown, opening, asked, visits, unstored, missed, mixed>>

\* The turns are pushed, into a new document if there is none (any more); a failure
\* of that is only logged.
StoreTurn ==
    /\ question.at = "queried"
    /\ question' = [question EXCEPT !.at = "stored"]
    /\ \E c \in question.conversation :
        \/ /\ stored' = With(History(c) \o <<UserSaid(question.no), Answered(question.no)>>, c)
           /\ UNCHANGED unstored
        \/ /\ unstored' = unstored \cup {question.no}
           /\ UNCHANGED stored
    /\ UNCHANGED <<listed, shown, opening, asked, visits, missed, mixed>>

\* The model does not sum up, or the producer stops.
QueryFails ==
    /\ question.at = "queried"
    /\ question' = [question EXCEPT !.at = "refused"]
    /\ UNCHANGED <<stored, listed, shown, opening, asked, visits, unstored, missed, mixed>>

NotWaiting(messages) == Sifted(messages, {m \in Entry : m.kind # "waiting"})
ShowsAnswer(n) == \E i \in DOMAIN shown.messages : shown.messages[i] = Answered(n)
Waits == \E i \in DOMAIN shown.messages : shown.messages[i].kind = "waiting"

\* The turn is stored, or the failure logged, but the answer does not reach the page.
AnswerLost ==
    /\ question.at = "stored"
    /\ question' = [question EXCEPT !.at = "lost"]
    /\ missed' = IF question.no \in unstored \/ ShowsAnswer(question.no) THEN missed
                 ELSE missed \cup {question.no}
    /\ UNCHANGED <<stored, listed, shown, opening, asked, visits, unstored, mixed>>

\* The answer goes to the page as it is now.  After the first answer of a conversation
\* the page takes its id, and the sidebar is fetched.
ShowAnswer ==
    /\ question.at = "stored"
    /\ shown' = [conversation |-> IF question.sentTo = {} THEN question.conversation ELSE shown.conversation,
                 messages |-> Append(NotWaiting(shown.messages), Answered(question.no))]
    /\ listed' = IF question.sentTo = {} THEN DOMAIN stored ELSE listed
    /\ mixed' = (mixed \/ ~Waits)
    /\ question' = NoQuestion
    /\ UNCHANGED <<stored, opening, asked, visits, unstored, missed>>

ShowRefusal ==
    /\ question.at \in {"refused", "lost"}
    /\ shown' = [shown EXCEPT !.messages = Append(NotWaiting(@), Error)]
    /\ question' = NoQuestion
    /\ UNCHANGED <<stored, listed, opening, asked, visits, unstored, missed, mixed>>

Visit == visits < MaxVisits /\ visits' = visits + 1

\* Mutant of StartNewChat: the messages go, the conversation stays.
StartOnSameChat ==
    /\ Visit
    /\ shown' = [shown EXCEPT !.messages = << >>] /\ mixed' = FALSE
    /\ UNCHANGED <<stored, listed, question, opening, asked, unstored, missed>>

\* handleNewChat; a question that is under way is not stopped.
StartNewChat ==
    /\ Visit
    /\ shown' = NewChat /\ mixed' = FALSE
    /\ UNCHANGED <<stored, listed, question, opening, asked, unstored, missed>>

\* handleSelectConversation: the page is emptied, its conversation stays until the answer.
Select ==
    /\ Visit /\ opening.at = "idle"
    /\ \E c \in listed \ shown.conversation :
        opening' = [NoOpening EXCEPT !.at = "asked", !.conversation = {c}]
    /\ shown' = [shown EXCEPT !.messages = << >>]
    /\ UNCHANGED <<stored, listed, question, asked, unstored, missed, mixed>>

\* 404 for a conversation that is gone.
ServeConversation ==
    /\ opening.at = "asked"
    /\ \E c \in opening.conversation :
        opening' = IF c \in DOMAIN stored THEN [opening EXCEPT !.at = "found", !.history = stored[c]]
                   ELSE [opening EXCEPT !.at = "failed"]
    /\ UNCHANGED <<stored, listed, shown, question, asked, visits, unstored, missed, mixed>>

OpeningFails ==
    /\ opening.at = "asked"
    /\ opening' = [opening EXCEPT !.at = "failed"]
    /\ UNCHANGED <<stored, listed, shown, question, asked, visits, unstored, missed, mixed>>

\* A conversation that was stored or deleted meanwhile is shown as it was read.  If it
\* cannot be loaded, the page keeps the id of the one before.
ShowConversation ==
    /\ opening.at \in {"found", "failed"}
    /\ IF opening.at = "found"
       THEN /\ shown' = [conversation |-> opening.conversation, messages |-> opening.history]
            /\ mixed' = \E c \in opening.conversation : History(c) # opening.history
            /\ missed' = missed \ {opening.history[i].no : i \in DOMAIN opening.history}
       ELSE /\ shown' = [shown EXCEPT !.messages = <<Error>>]
            /\ mixed' = (mixed \/ shown.conversation # {})
            /\ UNCHANGED missed
    /\ opening' = NoOpening
    /\ UNCHANGED <<stored, listed, question, asked, visits, unstored>>

\* DELETE, and the page is cleared if it shows that conversation.
DeleteConversation ==
    /\ Visit
    /\ \E c \in listed :
        /\ stored' = [d \in DOMAIN stored \ {c} |-> stored[d]]
        /\ listed' = listed \ {c}
        /\ shown' = IF c \in shown.conversation THEN NewChat ELSE shown
        /\ mixed' = IF c \in shown.conversation THEN FALSE ELSE mixed
    /\ UNCHANGED <<question, opening, asked, unstored, missed>>

ChatNext ==
    \/ Ask \/ Query \/ StoreTurn \/ QueryFails \/ AnswerLost \/ ShowAnswer \/ ShowRefusal
    \/ StartNewChat \/ Select \/ ServeConversation \/ OpeningFails \/ ShowConversation
    \/ DeleteConversation

ChatSpec == ChatInit /\ [][ChatNext]_chatVars

----------------------------------------------------------------------------
\* The answers among the turns, but for some.
AnswersOf(turns, but) == Sifted(turns, {m \in Entry : m.kind = "answer" /\ m.no \notin but})

\* Stored conversations hold whole turns.  When the page is idle, the answers it shows
\* are the stored ones of its conversation, in order, but for those that could not be
\* stored and those that were lost after they were, which it shows when the conversation
\* is opened again; even if the user left and came back while a question was under way
\* (ChatPage.tsx, routes/ai.ts).  What breaks it: an answer arrives on a page that no
\* longer waits for it, a conversation changed while it was loaded, a failed load.
ChatKept ==
    /\ \A c \in DOMAIN stored : \A i \in DOMAIN stored[c] :
            stored[c][i].kind = IF i % 2 = 1 THEN "user" ELSE "answer"
    /\ Quiet /\ ~mixed =>
            \A c \in shown.conversation :
                AnswersOf(shown.messages, unstored) = AnswersOf(History(c), missed)

\* Whatever the model wrote, the pipeline that runs matches the organization first,
\* redacts second and has a limit.  All other stages of the model, but for the first
\* match, which gave its conditions to the first stage, follow in their order, with at
\* most the limit added (chat-sanitizer.ts).
PipelineScoped ==
    question.at = "queried" =>
        LET p == question.pipeline
            said == question.said
            Has(kind, n) == \E i \in 1..n : said[i] = kind
        IN  /\ p[1] = "orgMatch" /\ p[2] = "unset"
            /\ \E i \in 3..Len(p) : p[i] = "limit"
            /\ \A i \in 3..Len(p) : p[i] \in PipelineStage \ {"forbidden"}
            /\ \A i \in 1..Len(said) : ~Has("match", i) => p[i + 2] = said[i]
            /\ \A i \in 1..Len(said) : Has("match", i - 1) => p[i + 1] = said[i]
            /\ Len(p) = Len(said) + (IF Has("match", Len(said)) THEN 1 ELSE 2)
                                  + (IF Has("limit", Len(said)) THEN 0 ELSE 1)

=============================================================================

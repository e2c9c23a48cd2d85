------------------------------ MODULE Handlers ------------------------------
(***************************************************************************)
(* The HTTP requests in flight.  Gin serves each in a goroutine, so their  *)
(* database calls interleave freely; `pc` names the call a handler makes   *)
(* next, `loaded` and `counts` are its local variables.                    *)
(***************************************************************************)
EXTENDS Store

CONSTANTS
    Calls,          \* the inputs that requests may carry
    NoTitle         \* an update that leaves the title alone

VARIABLES
    up,             \* whether the server process runs
    call,           \* the input of each request
    pc,             \* the stage of each handler
    loaded,         \* the poll document the handler holds
    counts,         \* the count map the handler holds
    reply           \* the outcome the controller answers with

process == <<up, call>>
handlers == <<pc, loaded, counts, reply>>

VoteCalls   == [kind : {"vote"}, poll : Polls, option : Options, token : Tokens]
ResultCalls == [kind : {"results"}, poll : Polls]
CreateCalls == [kind : {"create"}, user : Users, title : Titles,
                options : SUBSET Options]
UpdateCalls == [kind : {"update"}, poll : Polls, user : Users,
                title : Titles \cup {NoTitle}]
CloseCalls  == [kind : {"close"}, poll : Polls, user : Users]
DeleteCalls == [kind : {"delete"}, poll : Polls, user : Users]

OwnerKinds == {"update", "close", "delete"}

ASSUME HandlersAssumption ==
    Calls \subseteq VoteCalls \cup ResultCalls \cup CreateCalls
                    \cup UpdateCalls \cup CloseCalls \cup DeleteCalls

Stages == {"check", "insert", "incr", "read", "publish",        \* Cast
           "tally",                                             \* GetResults
           "write", "reload", "purge", "remove"}                \* owners

\* The answers each controller can give.
CastCodes    == {"ok", "not_found", "poll_closed", "invalid_option",
                 "already_voted", "internal"}
ResultCodes  == {"ok", "not_found", "internal"}
CreateCodes  == {"ok", "invalid_options", "internal"}
UpdateCodes  == {"ok", "null_poll", "not_found", "forbidden", "internal"}
CloseCodes   == {"ok", "null_poll", "not_found", "forbidden", "internal"}
DeleteCodes  == {"ok", "not_found", "forbidden", "internal"}

Codes == [vote |-> CastCodes, results |-> ResultCodes, create |-> CreateCodes,
          update |-> UpdateCodes, close |-> CloseCodes, delete |-> DeleteCodes]

HandlersInit ==
    /\ up = FALSE
    /\ call \in [Requests -> Calls]
    /\ pc = [r \in Requests |-> "new"]
    /\ loaded = [r \in Requests |-> NoPoll]
    /\ counts = [r \in Requests |-> NoCounts]
    /\ reply = [r \in Requests |-> "none"]

-----------------------------------------------------------------------------
InFlight(r) == pc[r] \in Stages

\* Request r reaches its handler.
Starts(r, kinds) == up /\ pc[r] = "new" /\ call[r].kind \in kinds

At(r, stage) == up /\ pc[r] = stage

Goto(r, stage) ==
    /\ pc' = [pc EXCEPT ![r] = stage]
    /\ UNCHANGED reply

\* Mutant of Answer: the handler responds and forgets to return.
AnswerAndGoOn(r, code) ==
    /\ UNCHANGED pc
    /\ reply' = [reply EXCEPT ![r] = code]

Answer(r, code) ==
    /\ pc' = [pc EXCEPT ![r] = "done"]
    /\ reply' = [reply EXCEPT ![r] = code]

\* A MongoDB call of r's handler returns an error that ends the request.
FailsInternally(r) == "mongo" \in Faults /\ Answer(r, "internal")
=============================================================================

--------------------------- MODULE NativeHarness ---------------------------
(* A Tier B harness: a child process that answers JSON-RPC lines on its     *)
(* stdout (runtime/native.rs). One call is under way at a time; the child   *)
(* may say other things first, answer an earlier call late, refuse, or go.  *)
(*                                                                          *)
(* A line is a record of the id it answers (0 for a notification or a line  *)
(* that is not JSON), and what it says: the result, an error, or that there *)
(* is no such method. Contents are left out: an answer carries its call.    *)
EXTENDS Naturals, Sequences, SequencesExt

CONSTANTS MaxSkipped,   \* lines read for one call: 64
          MaxCalls      \* bound of the instance

VARIABLES
    alive,       \* the child runs
    nextCall,    \* NativeHarness::next_id
    calling,     \* what is under way: [id, method], or none
    owed,        \* calls the child has read and not answered, by id
    lines,       \* what stdout holds unread
    skipped,     \* lines read for this call
    extensions,  \* supports_extensions
    answered     \* what the last call came to: [id, as, of]

nativeVars == <<alive, nextCall, calling, owed, lines, skipped, extensions, answered>>

Idle == [id |-> 0, method |-> "none"]
Methods == {"tools/list", "tools/call", "harness/context", "harness/view"}
Says == {"result", "error", "no method"}

\* spawn, with the child's answer to `initialize` already read.
NativeInit ==
    /\ alive = TRUE /\ nextCall = 2
    /\ calling = Idle /\ owed = {} /\ lines = <<>> /\ skipped = 0
    /\ extensions = TRUE
    /\ answered = [id |-> 1, as |-> "result", of |-> 1]

\* request, its first half. A plain MCP server is not asked for its context
\* again: it is described generically.
Ask(method) ==
    /\ calling = Idle /\ nextCall <= MaxCalls
    /\ IF method = "harness/context" /\ ~extensions
       THEN /\ answered' = [id |-> nextCall, as |-> "generic", of |-> nextCall]
            /\ nextCall' = nextCall + 1
            /\ UNCHANGED <<calling, owed, skipped>>
       ELSE /\ calling' = [id |-> nextCall, method |-> method]
            /\ nextCall' = nextCall + 1
            /\ owed' = owed \cup {nextCall}
            /\ skipped' = 0
            /\ UNCHANGED answered
    /\ UNCHANGED <<alive, lines, extensions>>

CallEnds(as, of) ==
    /\ answered' = [id |-> calling.id, as |-> as, of |-> of]
    /\ calling' = Idle

\* A plausible slip: whatever comes first is the answer.
IsAnyAnswer(line) == line.id # 0

\* Notifications and answers to other calls are skipped.
IsTheAnswer(line) == line.id = calling.id

\* request, the next line of its second half.
ReadLine ==
    /\ calling # Idle /\ lines # <<>>
    /\ lines' = Tail(lines)
    /\ skipped' = skipped + 1
    /\ LET line == Head(lines)
       IN  \/ /\ IsTheAnswer(line)
              /\ extensions' = (extensions /\ ~(line.says = "no method"
                                                 /\ calling.method = "harness/context"))
              /\ CallEnds(IF extensions' # extensions THEN "generic" ELSE line.says, line.id)
           \/ /\ ~IsTheAnswer(line)
              /\ UNCHANGED extensions
              /\ IF skipped' = MaxSkipped THEN CallEnds("no response", calling.id)
                 ELSE UNCHANGED <<calling, answered>>
    /\ UNCHANGED <<alive, nextCall, owed>>

\* read_line returns nothing: the child closed its stdout.
ReadEnd ==
    /\ calling # Idle /\ lines = <<>> /\ ~alive
    /\ CallEnds("closed", calling.id)
    /\ UNCHANGED <<alive, nextCall, owed, lines, skipped, extensions>>

\* The child: an answer to any call it has read, or a line of another kind.
ChildAnswers(id, says) ==
    /\ alive /\ id \in owed
    /\ owed' = owed \ {id}
    /\ lines' = Append(lines, [id |-> id, says |-> says])
    /\ UNCHANGED <<alive, nextCall, calling, skipped, extensions, answered>>

ChildNotes ==
    /\ alive /\ Len(lines) < MaxSkipped
    /\ lines' = Append(lines, [id |-> 0, says |-> "result"])
    /\ UNCHANGED <<alive, nextCall, calling, owed, skipped, extensions, answered>>

ChildGoes ==
    /\ alive
    /\ alive' = FALSE
    /\ UNCHANGED <<nextCall, calling, owed, lines, skipped, extensions, answered>>

NativeNext ==
    \/ \E method \in Methods : Ask(method)
    \/ ReadLine
    \/ ReadEnd
    \/ \E id \in owed, says \in Says : ChildAnswers(id, says)
    \/ ChildNotes
    \/ ChildGoes

NativeSpec == NativeInit /\ [][NativeNext]_nativeVars

(* A call never comes back with another call's answer: what Core takes for  *)
(* a result answers the call it was asked for, though the child answers     *)
(* late, out of order, after Core gave up on a call, or says other things   *)
(* in between (native.rs request). Only a child that said it has no such    *)
(* method is described generically.                                         *)
OwnAnswersOnly ==
    /\ answered.of = answered.id
    /\ answered.as = "generic" => ~extensions
============================================================================

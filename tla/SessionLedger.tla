---------------------------- MODULE SessionLedger ----------------------------
(***************************************************************************)
(* What an AgentSession promises its host, without locks, drivers or       *)
(* events: turns take the session one at a time under increasing numbers,  *)
(* inputs wait in two queues, and the transcript grows by whole queues of  *)
(* input and by single outputs of the turn that runs.  Taking a queue and  *)
(* writing it to the transcript is one step here; the code takes its lock  *)
(* twice (AgentSession refines this module).                               *)
(***************************************************************************)
EXTENDS Naturals, Sequences

CONSTANTS Queues,   \* names of the input queues
          Items     \* everything a transcript can hold

VARIABLES
    turn,        \* the running turn, 0 when none
    turns,       \* turns started so far
    primary,     \* input of the running turn that it has not written yet
    pending,     \* inputs waiting in each queue
    transcript

ledgerVars == <<turn, turns, primary, pending, transcript>>

LedgerInit ==
    /\ turn = 0
    /\ turns = 0
    /\ primary = << >>
    /\ pending = [q \in Queues |-> << >>]
    /\ transcript = << >>

Begin ==
    /\ turn = 0
    /\ turns' = turns + 1
    /\ turn' = turns'
    /\ primary' \in {<< >>} \cup {<< item >> : item \in Items}
    /\ UNCHANGED <<pending, transcript>>

Accept(q) ==
    /\ \E item \in Items : pending' = [pending EXCEPT ![q] = Append(@, item)]
    /\ UNCHANGED <<turn, turns, primary, transcript>>

(* The running turn writes its own input, or all the input of a queue.     *)
WritePrimary ==
    /\ turn # 0
    /\ transcript' = transcript \o primary
    /\ primary' = << >>
    /\ UNCHANGED <<turn, turns, pending>>

WriteQueue(q) ==
    /\ turn # 0
    /\ primary = << >>
    /\ transcript' = transcript \o pending[q]
    /\ pending' = [pending EXCEPT ![q] = << >>]
    /\ UNCHANGED <<turn, turns, primary>>

(* The running turn writes one message, tool call or tool result.          *)
WriteOutput ==
    /\ turn # 0
    /\ primary = << >>
    /\ \E item \in Items : transcript' = Append(transcript, item)
    /\ UNCHANGED <<turn, turns, primary, pending>>

(* The turn ends; if it never began, its own input is lost with it.        *)
End ==
    /\ turn # 0
    /\ turn' = 0
    /\ primary' = << >>
    /\ UNCHANGED <<turns, pending, transcript>>

LedgerNext ==
    \/ Begin \/ WritePrimary \/ WriteOutput \/ End
    \/ \E q \in Queues : Accept(q) \/ WriteQueue(q)

LedgerSpec == LedgerInit /\ [][LedgerNext]_ledgerVars
=============================================================================

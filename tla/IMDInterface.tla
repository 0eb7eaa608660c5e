---------------------------- MODULE IMDInterface ----------------------------
(***************************************************************************)
(* IMDInterface: an analyzer that a viewer (VMD) connects to over a socket *)
(* and that it pauses the simulation with. analyze() answers what has come *)
(* in and, while paused, does not return.                                  *)
(*                                                                         *)
(* The socket holds one command at most. Coordinates, forces and the rate  *)
(* at which they are sent are left out; an error of the socket is one more *)
(* way to disconnect.  One process, or the root rank of several.           *)
(***************************************************************************)
EXTENDS Naturals

VARIABLES
    link,       \* "none", "pending": a viewer waits on the listening socket, "open"
    inbox,      \* the command that waits on an open connection
    m_paused

imdVars == <<link, inbox, m_paused>>

NoCommand == "none"
Commands == {"DISCONNECT", "GO", "KILL", "PAUSE"}

\* The constructor; the simulation may start paused.
ImdInit == link = "none" /\ inbox = NoCommand /\ m_paused \in BOOLEAN

\* The viewer, at any time.
Connect ==
    /\ link = "none" /\ link' = "pending"
    /\ UNCHANGED <<inbox, m_paused>>

Send ==
    /\ link = "open" /\ inbox = NoCommand
    /\ inbox' \in Commands
    /\ UNCHANGED <<link, m_paused>>

\* establishConnectionAttempt(): the handshake may fail.
Accept ==
    /\ link = "pending"
    /\ link' \in {"none", "open"}
    /\ UNCHANGED <<inbox, m_paused>>

\* messagesAvailable()
Available == link = "open" /\ inbox # NoCommand

\* processDeadConnection()
ProcessDeadConnection ==
    /\ link' = "none" /\ inbox' = NoCommand
    /\ m_paused' = FALSE

\* processIMD_GO(), and processIMD_PAUSE(), which is a switch.
ProcessCommand ==
    /\ inbox \in {"GO", "PAUSE"}
    /\ m_paused' = (inbox = "PAUSE" /\ ~ m_paused)
    /\ inbox' = NoCommand
    /\ UNCHANGED link
=============================================================================

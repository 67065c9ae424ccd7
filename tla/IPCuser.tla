------------------------------- MODULE IPCuser -------------------------------
(***************************************************************************)
(* The simulator's client library, IPCuser.c, as its one client uses it.    *)
(* Requests are gathered in shared memory (Read) and sent to the window of  *)
(* the simulator's module in one message (Process).                         *)
(***************************************************************************)
EXTENDS Naturals

CONSTANT MaxMsgs    \* the requests pDestArray has room for (MAX_MSGS)

VARIABLES
    sim,      \* "absent", "deaf" (a window that does not answer) or "up"
    view,     \* m_pView, m_hWnd: "closed", "open", or "stale" when open to a
              \*   window that has gone
    index     \* iIndex

IsOpen == view # "closed"

\* There is room for n more requests.
HasRoom(n) == index + n <= MaxMsgs

\* FSUIPC_Close, under the name it has here.
Close == view' = "closed" /\ UNCHANGED index

(***************************************************************************)
(* FSUIPC_Open exchanges two requests with the simulator.  When that fails  *)
(* they stay counted in iIndex.  An open library stays as it is, with the   *)
(* error FSUIPC_ERR_OPEN.                                                   *)
(***************************************************************************)
Open ==
    IF IsOpen \/ sim = "absent" THEN UNCHANGED <<view, index>>
    ELSE IF ~ HasRoom(2) THEN view' = "closed" /\ index' = MaxMsgs
    ELSE IF sim = "deaf" THEN view' = "closed" /\ index' = index + 2
    ELSE view' = "open" /\ index' = 0

\* n calls of FSUIPC_Read; the last one succeeds if Reads(n).
CanRead(n) == IsOpen /\ HasRoom(n)

Read(n) ==
    /\ index' = IF CanRead(n) THEN index + n ELSE IF IsOpen THEN MaxMsgs ELSE index
    /\ UNCHANGED view

\* FSUIPC_Process gets an answer: the library is open to a simulator that answers.
Answers == view = "open" /\ sim = "up" /\ index > 0

\* It starts a new list of requests only when it has succeeded.
Processed == index' = 0 /\ UNCHANGED view
=============================================================================

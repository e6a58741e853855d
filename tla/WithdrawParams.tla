---------------------------- MODULE WithdrawParams ----------------------------
(***************************************************************************)
(* Parameters shared by the components of the withdraw path.               *)
(***************************************************************************)
EXTENDS Integers

CONSTANTS
    Users,     \* authenticated principals (JWT subjects, user_id locals)
    Amounts,   \* amount_minor values a request body can carry
    DBErrors   \* TRUE iff a call to PostgreSQL or Redis may return an error

ASSUME ParamsAssumption ==
    /\ Users # {}
    /\ Amounts \subseteq Int
    /\ DBErrors \in BOOLEAN
=============================================================================

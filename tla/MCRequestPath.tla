---------------------------- MODULE MCRequestPath ----------------------------
(***************************************************************************)
(* RequestPath on a small instance: clients of every frontend, with and    *)
(* without thinking, and one whose model is of another family.             *)
(***************************************************************************)
EXTENDS RequestPath

MCClient ==
  {[frontend |-> "messages",  thinking |-> "absent",   glm |-> TRUE,  identified |-> TRUE,
    sends |-> {"tools"},             blocks |-> 7],
   [frontend |-> "messages",  thinking |-> "absent",   glm |-> TRUE,  identified |-> TRUE,
    sends |-> {"tools", "search"},   blocks |-> 6],
   [frontend |-> "messages",  thinking |-> "enabled",  glm |-> TRUE,  identified |-> FALSE,
    sends |-> {"tools", "thinking"}, blocks |-> 8],
   [frontend |-> "messages",  thinking |-> "adaptive", glm |-> TRUE,  identified |-> TRUE,
    sends |-> {"thinking", "other"}, blocks |-> 4],
   [frontend |-> "messages",  thinking |-> "disabled", glm |-> FALSE, identified |-> TRUE,
    sends |-> {"tools", "billing"},  blocks |-> 4],
   [frontend |-> "responses", thinking |-> "absent",   glm |-> TRUE,  identified |-> TRUE,
    sends |-> {},                    blocks |-> 4],
   [frontend |-> "chat",      thinking |-> "absent",   glm |-> TRUE,  identified |-> FALSE,
    sends |-> {},                    blocks |-> 4]}

\* One client with tools.
MCToolClient ==
  {[frontend |-> "messages", thinking |-> "absent", glm |-> TRUE, identified |-> TRUE,
    sends |-> {"tools"}, blocks |-> 7]}
=============================================================================

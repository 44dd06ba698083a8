-------------------------- MODULE MCResponsesRelay --------------------------
(* One upstream that has a whole turn to say, keep-alive and trailer included. *)
EXTENDS ResponsesRelay

WholeTurn == {<<"text", "finish", "comment", "usage", "done">>}
==============================================================================

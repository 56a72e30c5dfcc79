---------------------------- MODULE StreamEvents ----------------------------
(***************************************************************************)
(* The vocabulary of the streaming layer (src/ai/events.go): the union of  *)
(* streaming events, cut down to what the stream machinery tells apart.    *)
(* The ten kinds of partial update are one kind, "update"; the             *)
(* AssistantMessage an event carries (its Partial snapshot, or the final   *)
(* message of a terminal event) is a number, so that no two events of a    *)
(* stream are equal.                                                       *)
(***************************************************************************)
EXTENDS Naturals, Sequences

\* A nil *AssistantMessage.
NoMessage == 0

Message == Nat \ {NoMessage}

Kinds == {"update", "done", "error"}

Event == [kind : Kinds, msg : Message]

IsTerminalEvent(ev) == ev.kind \in {"done", "error"}

EventResult(ev) == IF IsTerminalEvent(ev) THEN ev.msg ELSE NoMessage

=============================================================================

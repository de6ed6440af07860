---------------------------- MODULE Conversation ----------------------------
(***************************************************************************)
(* What generateResponse (native_llama.dart) promises of a reply: an       *)
(* engine that remembers nothing between calls.  It is asked with a prompt *)
(* and says one token after another, each sampled from a context that is   *)
(* the prompt and the reply so far, nothing else; it may end at any point. *)
(* A conversation that outgrows the window, or whose media could not be    *)
(* read to the end, goes on without a promise.                             *)
(***************************************************************************)
EXTENDS Sequences

CONSTANTS Vocab,     \* tokens that can be sampled
          Prompts    \* token sequences that can be asked with

VARIABLES state,     \* "quiet", "answering", or "beyond" the promise
          prompt, reply,
          context    \* what the next token is sampled from

vars == <<state, prompt, reply, context>>

Nothing == prompt' = <<>> /\ reply' = <<>> /\ context' = <<>>

Init == /\ state = "quiet"
        /\ prompt = <<>> /\ reply = <<>> /\ context = <<>>

Ask(p) == /\ state = "quiet" /\ state' = "answering"
          /\ prompt' = p /\ reply' = <<>> /\ context' = p

Say(t) == /\ state = "answering"
          /\ reply' = Append(reply, t)
          /\ context' = prompt \o reply'
          /\ UNCHANGED <<state, prompt>>

End == /\ state # "quiet" /\ state' = "quiet"
       /\ Nothing

Outgrow == /\ state = "answering" /\ state' = "beyond"
           /\ Nothing

Next == \/ \E p \in Prompts : Ask(p)
        \/ \E t \in Vocab : Say(t)
        \/ End \/ Outgrow

Spec == Init /\ [][Next]_vars
=============================================================================

---------------------------- MODULE AbstractExchange ----------------------------
(* What one exchange of OpenAI mode promises the local program, without the two   *)
(* tasks, their stream and their timeouts: the provider is asked at most once,    *)
(* and the answer is as much of the provider's response as there has been, or one *)
(* of the proxy's own, never parts of both.  One that says that the provider has  *)
(* not been asked stays true.  OpenAiExchange implements it.                      *)
EXTENDS Integers, Sequences, SequencesExt

VARIABLES
    answer,     \* what the local program has received
    asked,      \* how often the provider has been asked
    produced,   \* what the provider has sent
    open        \* there may be more of the answer

vars == <<answer, asked, produced, open>>

(* The proxy's own answers: those given in the provider's stead, and those that   *)
(* leave open what the provider has made of the request.                          *)
InItsStead == {"200", "400", "408", "501", "503"}
Failures == {"502", "504"}

Init ==
    /\ answer = <<>> /\ produced = <<>>
    /\ asked = 0
    /\ open = TRUE

Ask ==
    /\ asked = 0
    /\ answer = <<>> \/ Head(answer) \notin InItsStead
    /\ asked' = 1
    /\ UNCHANGED <<answer, produced, open>>

(* The provider's status line and headers come with the first piece of its body.  *)
Produce ==
    /\ asked = 1
    /\ produced = <<>> \/ Last(produced) # "end"
    /\ \E piece \in {"data", "end"} :
          produced' = Append(IF produced = <<>> THEN <<"provider">> ELSE produced, piece)
    /\ UNCHANGED <<answer, asked, open>>

Forward ==
    /\ open
    /\ IsStrictPrefix(answer, produced)
    /\ answer' = Append(answer, produced[Len(answer) + 1])
    /\ UNCHANGED <<asked, produced, open>>

AnswerItself ==
    /\ open
    /\ \/ /\ answer = <<>>
          /\ \/ asked = 0 /\ \E status \in InItsStead : answer' = <<status>>
             \/ \E status \in Failures : answer' = <<status>>
       \/ /\ Len(answer) = 1 /\ answer[1] # "provider"
          /\ answer' = Append(answer, "end")
    /\ UNCHANGED <<asked, produced, open>>

(* The answer ends, wherever it is.                                               *)
Close ==
    /\ open
    /\ open' = FALSE
    /\ UNCHANGED <<answer, asked, produced>>

Next == Ask \/ Produce \/ Forward \/ AnswerItself \/ Close

Spec == Init /\ [][Next]_vars
================================================================================

----------------------------- MODULE MCServices -----------------------------
(* An instance of Services for TLC. *)
EXTENDS Services

\* Container d runs the release whose newest migration is d + 1.
MCRelease == [d \in Containers |-> d + 1]

\* The releases share samsung and hynix; the second alone names posco, the third kakao.
MCRows == << <<"samsung">>, <<"samsung", "hynix", "posco">>, <<"kakao", "samsung", "hynix">> >>

MCMasterKeys == {"samsung", "hynix", "posco", "kakao"}

\* A part that rests starts from one of its initial states, which one does not matter.
OneRestingState ==
  /\ part # "jwks" => published = {} /\ mode = "entra"
  /\ part # "order" => client = "none"
  /\ part # "deploy" => applied = {}
  /\ part # "api" => ticks = {}
  /\ \A a \in AlarmIds : alarms[a] = "closed" => part = "api" /\ a = 3

MCInit == ServicesInit /\ OneRestingState

MCSpec == MCInit /\ [][ServicesNext]_servicesVars /\ ServicesFairness
=============================================================================

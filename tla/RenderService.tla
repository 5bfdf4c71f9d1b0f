--------------------------- MODULE RenderService ---------------------------
(***************************************************************************)
(* What the flat-render pipeline promises the image route, with no word on *)
(* slots or queues (server/src/images/flat.ts, the comments of RenderGate  *)
(* and FlatRenderer.ensure): a call for a capture joins the one render in  *)
(* flight for it or asks for a new one, renders of one capture never       *)
(* overlap, and every caller is answered by the end of the render it       *)
(* joined.  RenderGate is shown to implement this specification.           *)
(***************************************************************************)
CONSTANTS
  Keys,     \* the internal ids of the captures that may be rendered
  Callers,  \* the requests for image.png that may be waiting at one time
  NoKey     \* a caller that waits for nothing

VARIABLES
  job,      \* job[k]: the render of k is "none", "asked" for, or "running"
  awaits    \* awaits[c]: the key whose render caller c waits for, or NoKey

serviceVars == <<job, awaits>>

ServiceTypeOK ==
  /\ job \in [Keys -> {"none", "asked", "running"}]
  /\ awaits \in [Callers -> Keys \cup {NoKey}]

ServiceInit ==
  /\ job = [k \in Keys |-> "none"]
  /\ awaits = [c \in Callers |-> NoKey]

(* A call joins the render in flight, or asks for one when there is none.  *)
Ask(c, k) ==
  /\ awaits[c] = NoKey
  /\ awaits' = [awaits EXCEPT ![c] = k]
  /\ job' = [job EXCEPT ![k] = IF @ = "none" THEN "asked" ELSE @]

Begin(k) ==
  /\ job[k] = "asked"
  /\ job' = [job EXCEPT ![k] = "running"]
  /\ UNCHANGED awaits

(* One render answers everybody who joined it. *)
Answer(k) ==
  /\ job[k] = "running"
  /\ job' = [job EXCEPT ![k] = "none"]
  /\ awaits' = [c \in Callers |-> IF awaits[c] = k THEN NoKey ELSE awaits[c]]

ServiceNext ==
  \/ \E c \in Callers, k \in Keys : Ask(c, k)
  \/ \E k \in Keys : Begin(k) \/ Answer(k)

SafeServiceSpec == ServiceInit /\ [][ServiceNext]_serviceVars

ServiceSpec ==
  /\ SafeServiceSpec
  /\ \A k \in Keys : WF_serviceVars(Begin(k)) /\ WF_serviceVars(Answer(k))
=============================================================================

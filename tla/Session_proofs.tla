--------------------------- MODULE Session_proofs ---------------------------
(***************************************************************************)
(* Theorems about a session: Tunnels, for any number of processes that     *)
(* fail and connections that are lost, PortForwards, for any ports and     *)
(* any number of changes, and ContainerCredentials, for any set of         *)
(* sessions.                                                               *)
(***************************************************************************)
EXTENDS Tunnels, PortForwards, ContainerCredentials, SequenceTheorems, TLAPS

-----------------------------------------------------------------------------
(* The goroutines of a tunnel *)

\* Which callers belong to ExecuteCommand, and that a session of devpod ssh begins
\* with its goroutines.
ExecuteAt ==
    /\ caller \in {"lock", "status"} => outer = "none" /\ inner = "none"
    /\ form = "execute" => caller \in {"serve", "first", "second", "returned", "panicked"}

\* A session begins with the connection, and one of ExecuteCommand that ended well
\* has sent the result before.
SessionBegins ==
    /\ inner \in {"none", "connect", "open"} => session = "none"
    /\ form = "execute" /\ session = "ok" => result

\* The inner goroutine reports success of a session that was one, and the outer one
\* reports once.
MessagesTrue ==
    /\ \A i \in 1..Len(errs) : errs[i] = "inner ok" => session = "ok"
    /\ \A i \in 1..Len(errs) : errs[i] = "outer ok" => outer = "ended"
    /\ \A i, j \in 1..Len(errs) : errs[i] = "outer ok" /\ errs[j] = "outer ok" => i = j

\* A caller that has received its first message without an error knows of the
\* success, or the outer goroutine has no more to say.
FirstMessage ==
    caller = "second" =>
        \/ session = "ok"
        \/ outer = "ended" /\ \A i \in 1..Len(errs) : errs[i] # "outer ok"

\* What ExecuteCommand returns is what the session was.
ReturnTrue == form = "execute" /\ ret = "ok" => session = "ok"

\* The type invariant in three parts: places, flags, and what is counted.
PlacesOK ==
    /\ form \in {"execute", "container", "direct"}
    /\ caller \in {"lock", "status", "serve", "first", "second", "select",
                   "returned", "panicked"}
    /\ outer \in {"none", "inject", "up", "ended"}
    /\ inner \in {"none", "connect", "open", "run", "close", "ended"}
    /\ session \in {"none", "running", "stuck", "ok", "error"}
    /\ nested \in {"none", "running", "ended"}
    /\ refresh \in {"none", "wait", "update", "ended"}
    /\ ret \in {"none", "ok", "error"}

FlagsOK ==
    /\ cancelled \in BOOLEAN /\ result \in BOOLEAN
    /\ wsLock \in BOOLEAN /\ silent \in BOOLEAN

CountsOK == errs \in Seq(Messages) /\ tunnelFaults \in 0..MaxTunnelFaults

\* What the invariant says beside types and messages.
Story == ExecuteAt /\ SessionBegins /\ FirstMessage /\ ReturnTrue

\* The inductive invariant.
TunnelInv == PlacesOK /\ FlagsOK /\ CountsOK /\ MessagesTrue /\ Story

\* The positions of a sequence that is one longer.
LEMMA OneMore ==
    ASSUME NEW n \in Nat, NEW k, k = n + 1
    PROVE  \A i \in 1..k : i \in 1..n \/ i = n + 1
OBVIOUS

\* What Append does to a sequence of messages.
LEMMA AppendMessage ==
    ASSUME NEW s \in Seq(Messages), NEW m \in Messages
    PROVE  /\ Append(s, m) \in Seq(Messages)
           /\ Len(Append(s, m)) = Len(s) + 1
           /\ Len(s) \in Nat
           /\ \A i \in 1..Len(s) : Append(s, m)[i] = s[i]
           /\ Append(s, m)[Len(s) + 1] = m
<1>1. Len(s) \in Nat
    BY LenProperties
<1>2. QED
    BY <1>1, AppendProperties

\* What Tail does to a sequence of messages.
LEMMA TailMessage ==
    ASSUME NEW s \in Seq(Messages), s # << >>
    PROVE  /\ Tail(s) \in Seq(Messages) /\ Len(s) \in Nat /\ Len(s) > 0
           /\ Len(Tail(s)) = Len(s) - 1
           /\ \A i \in 1..Len(Tail(s)) : Tail(s)[i] = s[i + 1]
           /\ Head(s) = s[1] /\ Head(s) \in Messages
<1>1. Len(s) \in Nat /\ Len(s) # 0
    BY LenProperties, EmptySeq
<1>2. /\ Tail(s) \in Seq(Messages) /\ Len(Tail(s)) = Len(s) - 1
      /\ \A i \in 1..Len(Tail(s)) : Tail(s)[i] = s[i + 1]
    BY HeadTailProperties
<1>3. Head(s) = s[1] /\ Head(s) \in Messages
    BY HeadTailProperties
<1>4. QED
    BY <1>1, <1>2, <1>3

\* The initial states satisfy the inductive invariant.
LEMMA TunnelInvInit == TunnelInit => TunnelInv
<1>1. SUFFICES ASSUME TunnelInit PROVE TunnelInv
    OBVIOUS
<1>2. errs = << >> /\ errs \in Seq(Messages) /\ Len(errs) = 0
    BY <1>1, EmptySeq DEF TunnelInit
<1>3. PlacesOK
    BY <1>1 DEF TunnelInit, PlacesOK
<1>4. FlagsOK
    BY <1>1 DEF TunnelInit, FlagsOK
<1>5. CountsOK
    BY <1>1, <1>2, TunnelAssumption DEF TunnelInit, CountsOK
<1>6. MessagesTrue
    BY <1>2 DEF MessagesTrue
<1>7. Story
    BY <1>1 DEF TunnelInit, Story, ExecuteAt, SessionBegins, FirstMessage, ReturnTrue
<1>8. QED
    BY <1>3, <1>4, <1>5, <1>6, <1>7 DEF TunnelInv

\* The facts about messages after one has been appended.
LEMMA AppendTrue ==
    ASSUME TunnelInv, NEW m \in Messages, errs' = Append(errs, m),
           m = "inner ok" => session' = "ok",
           m = "outer ok" => outer # "ended" /\ outer' = "ended",
           session = "ok" => session' = "ok", outer = "ended" => outer' = "ended"
    PROVE  /\ errs' \in Seq(Messages) /\ MessagesTrue'
           /\ m # "outer ok" /\ (\A i \in 1..Len(errs) : errs[i] # "outer ok")
                => \A i \in 1..Len(errs') : errs'[i] # "outer ok"
<1>1. errs \in Seq(Messages)
    BY DEF TunnelInv, CountsOK
<1>2. /\ errs' \in Seq(Messages) /\ Len(errs) \in Nat /\ Len(errs') = Len(errs) + 1
      /\ \A i \in 1..Len(errs) : errs'[i] = errs[i]
      /\ errs'[Len(errs) + 1] = m
    BY <1>1, AppendMessage
<1>3. \A i \in 1..Len(errs') : i \in 1..Len(errs) \/ i = Len(errs) + 1
    BY <1>2, OneMore
<1>4. MessagesTrue
    BY DEF TunnelInv
<1>5. \A i \in 1..Len(errs') : errs'[i] = "inner ok" => session' = "ok"
    BY <1>2, <1>3, <1>4 DEF MessagesTrue
<1>6. \A i \in 1..Len(errs') : errs'[i] = "outer ok" => outer' = "ended"
    BY <1>2, <1>3, <1>4 DEF MessagesTrue
<1>7. ASSUME NEW i \in 1..Len(errs'), NEW j \in 1..Len(errs'),
             errs'[i] = "outer ok", errs'[j] = "outer ok"
      PROVE  i = j
    BY <1>2, <1>3, <1>4, <1>7 DEF MessagesTrue
<1>8. m # "outer ok" /\ (\A i \in 1..Len(errs) : errs[i] # "outer ok")
        => \A i \in 1..Len(errs') : errs'[i] # "outer ok"
    BY <1>2, <1>3
<1>9. QED
    BY <1>2, <1>5, <1>6, <1>7, <1>8 DEF MessagesTrue

\* The facts about messages after the first one has been received.
LEMMA TailTrue ==
    ASSUME TunnelInv, errs # << >>, errs' = Tail(errs),
           session' = session, outer' = outer
    PROVE  /\ errs' \in Seq(Messages) /\ MessagesTrue'
           /\ Head(errs) \in Messages
           /\ Head(errs) = "inner ok" => session = "ok"
           /\ Head(errs) = "outer ok" =>
                 outer = "ended" /\ \A i \in 1..Len(errs') : errs'[i] # "outer ok"
           /\ (\A i \in 1..Len(errs) : errs[i] # "outer ok") => Head(errs) # "outer ok"
<1>1. errs \in Seq(Messages)
    BY DEF TunnelInv, CountsOK
<1>2. /\ errs' \in Seq(Messages) /\ Len(errs) \in Nat /\ Len(errs) > 0
      /\ Len(errs') = Len(errs) - 1
      /\ \A i \in 1..Len(errs') : errs'[i] = errs[i + 1]
      /\ Head(errs) = errs[1] /\ Head(errs) \in Messages
    BY <1>1, TailMessage
<1>3. \A i \in 1..Len(errs') : i \in Int /\ i + 1 \in 1..Len(errs) /\ i + 1 # 1
    BY <1>2
<1>4. 1 \in 1..Len(errs)
    BY <1>2
<1>5. MessagesTrue
    BY DEF TunnelInv
<1>6. \A i \in 1..Len(errs') : errs'[i] = "inner ok" => session' = "ok"
    BY <1>2, <1>3, <1>5 DEF MessagesTrue
<1>7. \A i \in 1..Len(errs') : errs'[i] = "outer ok" => outer' = "ended"
    BY <1>2, <1>3, <1>5 DEF MessagesTrue
<1>8. ASSUME NEW i \in 1..Len(errs'), NEW j \in 1..Len(errs'),
             errs'[i] = "outer ok", errs'[j] = "outer ok"
      PROVE  i = j
    <2>1. i + 1 = j + 1
        BY <1>2, <1>3, <1>5, <1>8 DEF MessagesTrue
    <2>2. QED
        BY <1>3, <2>1
<1>9. Head(errs) = "inner ok" => session = "ok"
    BY <1>2, <1>4, <1>5 DEF MessagesTrue
<1>10. Head(errs) = "outer ok" =>
          outer = "ended" /\ \A i \in 1..Len(errs') : errs'[i] # "outer ok"
    BY <1>2, <1>3, <1>4, <1>5 DEF MessagesTrue
<1>11. QED
    BY <1>2, <1>4, <1>6, <1>7, <1>8, <1>9, <1>10 DEF MessagesTrue

\* Every step keeps the inductive invariant.
LEMMA TunnelInvNext == TunnelInv /\ [TunnelNext]_tunnelVars => TunnelInv'
<1> SUFFICES ASSUME TunnelInv, [TunnelNext]_tunnelVars PROVE TunnelInv'
    OBVIOUS
<1>p. PlacesOK /\ FlagsOK
    BY DEF TunnelInv
<1>e. errs \in Seq(Messages)
    BY DEF TunnelInv, CountsOK
<1>t. /\ tunnelFaults \in 0..MaxTunnelFaults
      /\ TunnelFault => tunnelFaults' \in 0..MaxTunnelFaults
    BY TunnelAssumption DEF TunnelInv, CountsOK, TunnelFault
<1>s. MessagesTrue /\ Story
    BY DEF TunnelInv
<1>1. CASE LockForSession
    <2>1. PlacesOK'
        BY <1>1, <1>p DEF LockForSession, PlacesOK
    <2>2. FlagsOK'
        BY <1>1, <1>p DEF LockForSession, FlagsOK
    <2>3. CountsOK'
        BY <1>1, <1>e, <1>t DEF LockForSession, CountsOK
    <2>4. MessagesTrue'
        BY <1>1, <1>s DEF LockForSession, MessagesTrue, Story, ExecuteAt, SessionBegins, FirstMessage, ReturnTrue
    <2>5. Story'
        BY <1>1, <1>s DEF LockForSession, Story, ExecuteAt, SessionBegins, FirstMessage, ReturnTrue
    <2>6. QED
        BY <2>1, <2>2, <2>3, <2>4, <2>5 DEF TunnelInv
<1>2. CASE StartWait
    <2>1. PlacesOK'
        BY <1>2, <1>p DEF StartWait, PlacesOK, Return
    <2>2. FlagsOK'
        BY <1>2, <1>p DEF StartWait, FlagsOK, Return
    <2>3. CountsOK'
        BY <1>2, <1>e, <1>t DEF StartWait, CountsOK
    <2>4. MessagesTrue'
        BY <1>2, <1>s DEF StartWait, MessagesTrue, Story, ExecuteAt, SessionBegins, FirstMessage, ReturnTrue, Return
    <2>5. Story'
        BY <1>2, <1>s DEF StartWait, Story, ExecuteAt, SessionBegins, FirstMessage, ReturnTrue, Return
    <2>6. QED
        BY <2>1, <2>2, <2>3, <2>4, <2>5 DEF TunnelInv
<1>3. CASE HelperUp
    <2>1. PlacesOK'
        BY <1>3, <1>p DEF HelperUp, PlacesOK
    <2>2. FlagsOK'
        BY <1>3, <1>p DEF HelperUp, FlagsOK
    <2>3. CountsOK'
        BY <1>3, <1>e, <1>t DEF HelperUp, CountsOK
    <2>4. MessagesTrue'
        BY <1>3, <1>s DEF HelperUp, MessagesTrue, Story, ExecuteAt, SessionBegins, FirstMessage, ReturnTrue
    <2>5. Story'
        BY <1>3, <1>s DEF HelperUp, Story, ExecuteAt, SessionBegins, FirstMessage, ReturnTrue
    <2>6. QED
        BY <2>1, <2>2, <2>3, <2>4, <2>5 DEF TunnelInv
<1>4. CASE Connected
    <2>1. PlacesOK'
        BY <1>4, <1>p DEF Connected, PlacesOK
    <2>2. FlagsOK'
        BY <1>4, <1>p DEF Connected, FlagsOK
    <2>3. CountsOK'
        BY <1>4, <1>e, <1>t DEF Connected, CountsOK
    <2>4. MessagesTrue'
        BY <1>4, <1>s DEF Connected, MessagesTrue, Story, ExecuteAt, SessionBegins, FirstMessage, ReturnTrue
    <2>5. Story'
        BY <1>4, <1>s DEF Connected, Story, ExecuteAt, SessionBegins, FirstMessage, ReturnTrue
    <2>6. QED
        BY <2>1, <2>2, <2>3, <2>4, <2>5 DEF TunnelInv
<1>5. CASE NestedEnds
    <2>1. PlacesOK'
        BY <1>5, <1>p DEF NestedEnds, PlacesOK
    <2>2. FlagsOK'
        BY <1>5, <1>p DEF NestedEnds, FlagsOK
    <2>3. CountsOK'
        BY <1>5, <1>e, <1>t DEF NestedEnds, CountsOK
    <2>4. MessagesTrue'
        BY <1>5, <1>s DEF NestedEnds, MessagesTrue, Story, ExecuteAt, SessionBegins, FirstMessage, ReturnTrue
    <2>5. Story'
        BY <1>5, <1>s DEF NestedEnds, Story, ExecuteAt, SessionBegins, FirstMessage, ReturnTrue
    <2>6. QED
        BY <2>1, <2>2, <2>3, <2>4, <2>5 DEF TunnelInv
<1>6. CASE SessionBreaks
    <2>1. PlacesOK'
        BY <1>6, <1>p DEF SessionBreaks, PlacesOK
    <2>2. FlagsOK'
        BY <1>6, <1>p DEF SessionBreaks, FlagsOK
    <2>3. CountsOK'
        BY <1>6, <1>e, <1>t DEF SessionBreaks, CountsOK
    <2>4. MessagesTrue'
        BY <1>6, <1>s DEF SessionBreaks, MessagesTrue, Story, ExecuteAt, SessionBegins, FirstMessage, ReturnTrue
    <2>5. Story'
        BY <1>6, <1>s DEF SessionBreaks, Story, ExecuteAt, SessionBegins, FirstMessage, ReturnTrue
    <2>6. QED
        BY <2>1, <2>2, <2>3, <2>4, <2>5 DEF TunnelInv
<1>7. CASE InnerEnds
    <2>1. PlacesOK'
        BY <1>7, <1>p DEF InnerEnds, PlacesOK
    <2>2. FlagsOK'
        BY <1>7, <1>p DEF InnerEnds, FlagsOK
    <2>3. CountsOK'
        BY <1>7, <1>e, <1>t DEF InnerEnds, CountsOK
    <2>4. MessagesTrue'
        BY <1>7, <1>s DEF InnerEnds, MessagesTrue, Story, ExecuteAt, SessionBegins, FirstMessage, ReturnTrue
    <2>5. Story'
        BY <1>7, <1>s DEF InnerEnds, Story, ExecuteAt, SessionBegins, FirstMessage, ReturnTrue
    <2>6. QED
        BY <2>1, <2>2, <2>3, <2>4, <2>5 DEF TunnelInv
<1>8. CASE RefreshDone
    <2>1. PlacesOK'
        BY <1>8, <1>p DEF RefreshDone, PlacesOK
    <2>2. FlagsOK'
        BY <1>8, <1>p DEF RefreshDone, FlagsOK
    <2>3. CountsOK'
        BY <1>8, <1>e, <1>t DEF RefreshDone, CountsOK
    <2>4. MessagesTrue'
        BY <1>8, <1>s DEF RefreshDone, MessagesTrue, Story, ExecuteAt, SessionBegins, FirstMessage, ReturnTrue
    <2>5. Story'
        BY <1>8, <1>s DEF RefreshDone, Story, ExecuteAt, SessionBegins, FirstMessage, ReturnTrue
    <2>6. QED
        BY <2>1, <2>2, <2>3, <2>4, <2>5 DEF TunnelInv
<1>9. CASE RefreshStops
    <2>1. PlacesOK'
        BY <1>9, <1>p DEF RefreshStops, PlacesOK
    <2>2. FlagsOK'
        BY <1>9, <1>p DEF RefreshStops, FlagsOK
    <2>3. CountsOK'
        BY <1>9, <1>e, <1>t DEF RefreshStops, CountsOK
    <2>4. MessagesTrue'
        BY <1>9, <1>s DEF RefreshStops, MessagesTrue, Story, ExecuteAt, SessionBegins, FirstMessage, ReturnTrue
    <2>5. Story'
        BY <1>9, <1>s DEF RefreshStops, Story, ExecuteAt, SessionBegins, FirstMessage, ReturnTrue
    <2>6. QED
        BY <2>1, <2>2, <2>3, <2>4, <2>5 DEF TunnelInv
<1>10. CASE TunnelServerReturns
    <2>1. PlacesOK'
        BY <1>10, <1>p DEF TunnelServerReturns, PlacesOK
    <2>2. FlagsOK'
        BY <1>10, <1>p DEF TunnelServerReturns, FlagsOK
    <2>3. CountsOK'
        BY <1>10, <1>e, <1>t DEF TunnelServerReturns, CountsOK
    <2>4. MessagesTrue'
        BY <1>10, <1>s DEF TunnelServerReturns, MessagesTrue, Story, ExecuteAt, SessionBegins, FirstMessage, ReturnTrue
    <2>5. Story'
        BY <1>10, <1>s DEF TunnelServerReturns, Story, ExecuteAt, SessionBegins, FirstMessage, ReturnTrue
    <2>6. QED
        BY <2>1, <2>2, <2>3, <2>4, <2>5 DEF TunnelInv
<1>11. CASE Select
    <2>1. PlacesOK'
        BY ZenonT(60), <1>11, <1>p DEF Select, PlacesOK, Return
    <2>2. FlagsOK'
        BY <1>11, <1>p DEF Select, FlagsOK, Return
    <2>3. CountsOK'
        BY <1>11, <1>e, <1>t DEF Select, CountsOK
    <2>4. MessagesTrue'
        BY <1>11, <1>s DEF Select, MessagesTrue, Story, ExecuteAt, SessionBegins, FirstMessage, ReturnTrue, Return
    <2>5. Story'
        BY <1>11, <1>s DEF Select, Story, ExecuteAt, SessionBegins, FirstMessage, ReturnTrue, Return
    <2>6. QED
        BY <2>1, <2>2, <2>3, <2>4, <2>5 DEF TunnelInv
<1>12. CASE SendResult
    <2>1. PlacesOK'
        BY <1>12, <1>p DEF SendResult, PlacesOK
    <2>2. FlagsOK'
        BY <1>12, <1>p DEF SendResult, FlagsOK
    <2>3. CountsOK'
        BY <1>12, <1>e, <1>t DEF SendResult, CountsOK
    <2>4. MessagesTrue'
        BY <1>12, <1>s DEF SendResult, MessagesTrue, Story, ExecuteAt, SessionBegins, FirstMessage, ReturnTrue
    <2>5. Story'
        BY <1>12, <1>s DEF SendResult, Story, ExecuteAt, SessionBegins, FirstMessage, ReturnTrue
    <2>6. QED
        BY <2>1, <2>2, <2>3, <2>4, <2>5 DEF TunnelInv
<1>13. CASE CommandFails
    <2>1. PlacesOK'
        BY <1>13, <1>p DEF CommandFails, PlacesOK
    <2>2. FlagsOK'
        BY <1>13, <1>p DEF CommandFails, FlagsOK
    <2>3. CountsOK'
        BY <1>13, <1>e, <1>t DEF CommandFails, CountsOK
    <2>4. MessagesTrue'
        BY <1>13, <1>s DEF CommandFails, MessagesTrue, Story, ExecuteAt, SessionBegins, FirstMessage, ReturnTrue
    <2>5. Story'
        BY <1>13, <1>s DEF CommandFails, Story, ExecuteAt, SessionBegins, FirstMessage, ReturnTrue
    <2>6. QED
        BY <2>1, <2>2, <2>3, <2>4, <2>5 DEF TunnelInv
<1>14. CASE SessionEnds
    <2>1. PlacesOK'
        BY <1>14, <1>p DEF SessionEnds, PlacesOK
    <2>2. FlagsOK'
        BY <1>14, <1>p DEF SessionEnds, FlagsOK
    <2>3. CountsOK'
        BY <1>14, <1>e, <1>t DEF SessionEnds, CountsOK
    <2>4. MessagesTrue'
        BY <1>14, <1>s DEF SessionEnds, MessagesTrue, Story, ExecuteAt, SessionBegins, FirstMessage, ReturnTrue
    <2>5. Story'
        BY <1>14, <1>s DEF SessionEnds, Story, ExecuteAt, SessionBegins, FirstMessage, ReturnTrue
    <2>6. QED
        BY <2>1, <2>2, <2>3, <2>4, <2>5 DEF TunnelInv
<1>15. CASE RefreshTick
    <2>1. PlacesOK'
        BY <1>15, <1>p DEF RefreshTick, PlacesOK
    <2>2. FlagsOK'
        BY <1>15, <1>p DEF RefreshTick, FlagsOK
    <2>3. CountsOK'
        BY <1>15, <1>e, <1>t DEF RefreshTick, CountsOK
    <2>4. MessagesTrue'
        BY <1>15, <1>s DEF RefreshTick, MessagesTrue, Story, ExecuteAt, SessionBegins, FirstMessage, ReturnTrue
    <2>5. Story'
        BY <1>15, <1>s DEF RefreshTick, Story, ExecuteAt, SessionBegins, FirstMessage, ReturnTrue
    <2>6. QED
        BY <2>1, <2>2, <2>3, <2>4, <2>5 DEF TunnelInv
<1>16. CASE SessionFails
    <2>1. PlacesOK'
        BY <1>16, <1>p DEF SessionFails, PlacesOK
    <2>2. FlagsOK'
        BY <1>16, <1>p DEF SessionFails, FlagsOK
    <2>3. CountsOK'
        BY <1>16, <1>e, <1>t DEF SessionFails, CountsOK
    <2>4. MessagesTrue'
        BY <1>16, <1>s DEF SessionFails, MessagesTrue, Story, ExecuteAt, SessionBegins, FirstMessage, ReturnTrue
    <2>5. Story'
        BY <1>16, <1>s DEF SessionFails, Story, ExecuteAt, SessionBegins, FirstMessage, ReturnTrue
    <2>6. QED
        BY <2>1, <2>2, <2>3, <2>4, <2>5 DEF TunnelInv
<1>17. CASE SessionServerFails
    <2>1. PlacesOK'
        BY <1>17, <1>p DEF SessionServerFails, PlacesOK
    <2>2. FlagsOK'
        BY <1>17, <1>p DEF SessionServerFails, FlagsOK
    <2>3. CountsOK'
        BY <1>17, <1>e, <1>t DEF SessionServerFails, CountsOK
    <2>4. MessagesTrue'
        BY <1>17, <1>s DEF SessionServerFails, MessagesTrue, Story, ExecuteAt, SessionBegins, FirstMessage, ReturnTrue
    <2>5. Story'
        BY <1>17, <1>s DEF SessionServerFails, Story, ExecuteAt, SessionBegins, FirstMessage, ReturnTrue
    <2>6. QED
        BY <2>1, <2>2, <2>3, <2>4, <2>5 DEF TunnelInv
<1>18. CASE ContainerGone
    <2>1. PlacesOK'
        BY <1>18, <1>p DEF ContainerGone, PlacesOK
    <2>2. FlagsOK'
        BY <1>18, <1>p DEF ContainerGone, FlagsOK
    <2>3. CountsOK'
        BY <1>18, <1>e, <1>t DEF ContainerGone, CountsOK
    <2>4. MessagesTrue'
        BY <1>18, <1>s DEF ContainerGone, MessagesTrue, Story, ExecuteAt, SessionBegins, FirstMessage, ReturnTrue
    <2>5. Story'
        BY <1>18, <1>s DEF ContainerGone, Story, ExecuteAt, SessionBegins, FirstMessage, ReturnTrue
    <2>6. QED
        BY <2>1, <2>2, <2>3, <2>4, <2>5 DEF TunnelInv
<1>19. CASE HelperFails
    <2> DEFINE m == "outer error"
    <2>1. m \in Messages /\ errs' = Append(errs, m)
        BY <1>19 DEF HelperFails, Messages, OuterEnds
    <2>2. /\ session = "ok" => session' = "ok"
          /\ outer = "ended" => outer' = "ended"
          /\ outer' \in {outer, "ended"}
          /\ m = "inner ok" => session' = "ok"
          /\ m = "outer ok" => outer # "ended" /\ outer' = "ended"
        BY <1>19, <1>s DEF HelperFails, Story, SessionBegins, OuterEnds
    <2>3. /\ errs' \in Seq(Messages) /\ MessagesTrue'
          /\ m # "outer ok" /\ (\A i \in 1..Len(errs) : errs[i] # "outer ok")
                => \A i \in 1..Len(errs') : errs'[i] # "outer ok"
        BY <2>1, <2>2, AppendTrue
    <2>4. PlacesOK'
        <3>1. outer' \in {"none", "inject", "up", "ended"}
            BY <1>p, <2>2 DEF PlacesOK
        <3>2. /\ form' = form /\ caller' = caller /\ nested' = nested
              /\ refresh' = refresh /\ ret' = ret
            BY <1>19 DEF HelperFails
        <3>3. inner' \in {inner, "run", "close"} /\ session' \in {session, "running"}
            BY <1>19 DEF HelperFails
        <3>4. QED
            BY <1>p, <3>1, <3>2, <3>3 DEF PlacesOK
    <2>5. FlagsOK'
        BY <1>19, <1>p DEF HelperFails, FlagsOK, OuterEnds
    <2>6. CountsOK'
        BY <1>19, <1>t, <2>3 DEF HelperFails, CountsOK
    <2>7. Story'
        BY <1>19, <1>s, <2>3 DEF HelperFails, Story, ExecuteAt, SessionBegins, FirstMessage, ReturnTrue
    <2>8. QED
        BY <2>3, <2>4, <2>5, <2>6, <2>7 DEF TunnelInv
<1>20. CASE HelperEndsSilently
    <2> DEFINE m == "outer ok"
    <2>1. m \in Messages /\ errs' = Append(errs, m)
        BY <1>20 DEF HelperEndsSilently, Messages, OuterEnds
    <2>2. /\ session = "ok" => session' = "ok"
          /\ outer = "ended" => outer' = "ended"
          /\ outer' \in {outer, "ended"}
          /\ m = "inner ok" => session' = "ok"
          /\ m = "outer ok" => outer # "ended" /\ outer' = "ended"
        BY <1>20, <1>s DEF HelperEndsSilently, Story, SessionBegins, OuterEnds
    <2>3. /\ errs' \in Seq(Messages) /\ MessagesTrue'
          /\ m # "outer ok" /\ (\A i \in 1..Len(errs) : errs[i] # "outer ok")
                => \A i \in 1..Len(errs') : errs'[i] # "outer ok"
        BY <2>1, <2>2, AppendTrue
    <2>4. PlacesOK'
        <3>1. outer' \in {"none", "inject", "up", "ended"}
            BY <1>p, <2>2 DEF PlacesOK
        <3>2. /\ form' = form /\ caller' = caller /\ nested' = nested
              /\ refresh' = refresh /\ ret' = ret
            BY <1>20 DEF HelperEndsSilently
        <3>3. inner' \in {inner, "run", "close"} /\ session' \in {session, "running"}
            BY <1>20 DEF HelperEndsSilently
        <3>4. QED
            BY <1>p, <3>1, <3>2, <3>3 DEF PlacesOK
    <2>5. FlagsOK'
        BY <1>20, <1>p DEF HelperEndsSilently, FlagsOK, OuterEnds
    <2>6. CountsOK'
        BY <1>20, <1>t, <2>3 DEF HelperEndsSilently, CountsOK
    <2>7. Story'
        BY <1>20, <1>s, <2>3 DEF HelperEndsSilently, Story, ExecuteAt, SessionBegins, FirstMessage, ReturnTrue
    <2>8. QED
        BY <2>3, <2>4, <2>5, <2>6, <2>7 DEF TunnelInv
<1>21. CASE HelperStops
    <2> DEFINE m == "outer ok"
    <2>1. m \in Messages /\ errs' = Append(errs, m)
        BY <1>21 DEF HelperStops, Messages, OuterEnds
    <2>2. /\ session = "ok" => session' = "ok"
          /\ outer = "ended" => outer' = "ended"
          /\ outer' \in {outer, "ended"}
          /\ m = "inner ok" => session' = "ok"
          /\ m = "outer ok" => outer # "ended" /\ outer' = "ended"
        BY <1>21, <1>s DEF HelperStops, Story, SessionBegins, OuterEnds
    <2>3. /\ errs' \in Seq(Messages) /\ MessagesTrue'
          /\ m # "outer ok" /\ (\A i \in 1..Len(errs) : errs[i] # "outer ok")
                => \A i \in 1..Len(errs') : errs'[i] # "outer ok"
        BY <2>1, <2>2, AppendTrue
    <2>4. PlacesOK'
        <3>1. outer' \in {"none", "inject", "up", "ended"}
            BY <1>p, <2>2 DEF PlacesOK
        <3>2. /\ form' = form /\ caller' = caller /\ nested' = nested
              /\ refresh' = refresh /\ ret' = ret
            BY <1>21 DEF HelperStops
        <3>3. inner' \in {inner, "run", "close"} /\ session' \in {session, "running"}
            BY <1>21 DEF HelperStops
        <3>4. QED
            BY <1>p, <3>1, <3>2, <3>3 DEF PlacesOK
    <2>5. FlagsOK'
        BY <1>21, <1>p DEF HelperStops, FlagsOK, OuterEnds
    <2>6. CountsOK'
        BY <1>21, <1>t, <2>3 DEF HelperStops, CountsOK
    <2>7. Story'
        BY <1>21, <1>s, <2>3 DEF HelperStops, Story, ExecuteAt, SessionBegins, FirstMessage, ReturnTrue
    <2>8. QED
        BY <2>3, <2>4, <2>5, <2>6, <2>7 DEF TunnelInv
<1>22. CASE AgentForwardFails
    <2> DEFINE m == "inner error"
    <2>1. m \in Messages /\ errs' = Append(errs, m)
        BY <1>22 DEF AgentForwardFails, Messages
    <2>2. /\ session = "ok" => session' = "ok"
          /\ outer = "ended" => outer' = "ended"
          /\ outer' \in {outer, "ended"}
          /\ m = "inner ok" => session' = "ok"
          /\ m = "outer ok" => outer # "ended" /\ outer' = "ended"
        BY <1>22, <1>s DEF AgentForwardFails, Story, SessionBegins
    <2>3. /\ errs' \in Seq(Messages) /\ MessagesTrue'
          /\ m # "outer ok" /\ (\A i \in 1..Len(errs) : errs[i] # "outer ok")
                => \A i \in 1..Len(errs') : errs'[i] # "outer ok"
        BY <2>1, <2>2, AppendTrue
    <2>4. PlacesOK'
        <3>1. outer' \in {"none", "inject", "up", "ended"}
            BY <1>p, <2>2 DEF PlacesOK
        <3>2. /\ form' = form /\ caller' = caller /\ nested' = nested
              /\ refresh' = refresh /\ ret' = ret
            BY <1>22 DEF AgentForwardFails
        <3>3. inner' \in {inner, "run", "close"} /\ session' \in {session, "running"}
            BY <1>22 DEF AgentForwardFails
        <3>4. QED
            BY <1>p, <3>1, <3>2, <3>3 DEF PlacesOK
    <2>5. FlagsOK'
        BY <1>22, <1>p DEF AgentForwardFails, FlagsOK
    <2>6. CountsOK'
        BY <1>22, <1>t, <2>3 DEF AgentForwardFails, CountsOK
    <2>7. Story'
        BY <1>22, <1>s, <2>3 DEF AgentForwardFails, Story, ExecuteAt, SessionBegins, FirstMessage, ReturnTrue
    <2>8. QED
        BY <2>3, <2>4, <2>5, <2>6, <2>7 DEF TunnelInv
<1>23. CASE InnerSends
    <2> DEFINE m == (IF session = "ok" THEN "inner ok" ELSE "inner error")
    <2>1. m \in Messages /\ errs' = Append(errs, m)
        BY <1>23 DEF InnerSends, Messages
    <2>2. /\ session = "ok" => session' = "ok"
          /\ outer = "ended" => outer' = "ended"
          /\ outer' \in {outer, "ended"}
          /\ m = "inner ok" => session' = "ok"
          /\ m = "outer ok" => outer # "ended" /\ outer' = "ended"
        BY <1>23, <1>s DEF InnerSends, Story, SessionBegins
    <2>3. /\ errs' \in Seq(Messages) /\ MessagesTrue'
          /\ m # "outer ok" /\ (\A i \in 1..Len(errs) : errs[i] # "outer ok")
                => \A i \in 1..Len(errs') : errs'[i] # "outer ok"
        BY <2>1, <2>2, AppendTrue
    <2>4. PlacesOK'
        <3>1. outer' \in {"none", "inject", "up", "ended"}
            BY <1>p, <2>2 DEF PlacesOK
        <3>2. /\ form' = form /\ caller' = caller /\ nested' = nested
              /\ refresh' = refresh /\ ret' = ret
            BY <1>23 DEF InnerSends
        <3>3. inner' \in {inner, "run", "close"} /\ session' \in {session, "running"}
            BY <1>23 DEF InnerSends
        <3>4. QED
            BY <1>p, <3>1, <3>2, <3>3 DEF PlacesOK
    <2>5. FlagsOK'
        BY <1>23, <1>p DEF InnerSends, FlagsOK
    <2>6. CountsOK'
        BY <1>23, <1>t, <2>3 DEF InnerSends, CountsOK
    <2>7. Story'
        BY <1>23, <1>s, <2>3 DEF InnerSends, Story, ExecuteAt, SessionBegins, FirstMessage, ReturnTrue
    <2>8. QED
        BY <2>3, <2>4, <2>5, <2>6, <2>7 DEF TunnelInv
<1>24. CASE Connect
    <2>1. PlacesOK'
        BY ZenonT(60), <1>24, <1>p DEF Connect, PlacesOK
    <2>2. FlagsOK'
        BY <1>24, <1>p DEF Connect, FlagsOK
    <2>3. session' = session /\ outer' = outer /\ tunnelFaults' = tunnelFaults
        BY <1>24 DEF Connect
    <2>4. CASE errs' = errs
        <3>1. CountsOK' /\ MessagesTrue'
            BY <1>e, <1>t, <1>s, <2>3, <2>4 DEF CountsOK, MessagesTrue
        <3>2. Story'
            BY <1>24, <1>s, <2>4 DEF Connect, Story, ExecuteAt, SessionBegins, FirstMessage, ReturnTrue
        <3>3. QED
            BY <2>1, <2>2, <3>1, <3>2 DEF TunnelInv
    <2>5. CASE errs' = Append(errs, "inner error")
        <3>1. "inner error" \in Messages
            BY DEF Messages
        <3>2. /\ errs' \in Seq(Messages) /\ MessagesTrue'
              /\ (\A i \in 1..Len(errs) : errs[i] # "outer ok")
                    => \A i \in 1..Len(errs') : errs'[i] # "outer ok"
            BY <2>3, <2>5, <3>1, AppendTrue
        <3>3. CountsOK'
            BY <1>t, <2>3, <3>2 DEF CountsOK
        <3>4. Story'
            BY <1>24, <1>s, <3>2 DEF Connect, Story, ExecuteAt, SessionBegins, FirstMessage, ReturnTrue
        <3>5. QED
            BY <2>1, <2>2, <3>2, <3>3, <3>4 DEF TunnelInv
    <2>6. QED
        BY <1>24, <2>4, <2>5 DEF Connect
<1>25. CASE WaitFirst
    <2>1. errs # << >> /\ errs' = Tail(errs) /\ session' = session /\ outer' = outer
        BY <1>25 DEF WaitFirst
    <2>2. /\ errs' \in Seq(Messages) /\ MessagesTrue'
          /\ Head(errs) \in Messages
          /\ Head(errs) = "inner ok" => session = "ok"
          /\ Head(errs) = "outer ok" =>
                outer = "ended" /\ \A i \in 1..Len(errs') : errs'[i] # "outer ok"
          /\ (\A i \in 1..Len(errs) : errs[i] # "outer ok") => Head(errs) # "outer ok"
        BY <2>1, TailTrue
    <2>3. PlacesOK'
        <3>1. UNCHANGED <<form, outer, inner, session, nested, refresh>> BY <1>25 DEF WaitFirst
        <3>2. caller' \in {"returned", "second"} /\ ret' \in {"error", ret} BY <1>25 DEF WaitFirst, Return
        <3> QED BY <3>1, <3>2, <1>p DEF PlacesOK
    <2>4. FlagsOK'
        BY <1>25, <1>p DEF WaitFirst, FlagsOK, Return
    <2>5. CountsOK'
        BY <1>25, <1>t, <2>2 DEF WaitFirst, CountsOK
    <2>6. Story'
        BY <1>25, <1>s, <2>2 DEF WaitFirst, Story, ExecuteAt, SessionBegins, FirstMessage, ReturnTrue, Messages, Return
    <2>7. QED
        BY <2>2, <2>3, <2>4, <2>5, <2>6 DEF TunnelInv
<1>26. CASE WaitSecond
    <2>1. errs # << >> /\ errs' = Tail(errs) /\ session' = session /\ outer' = outer
        BY <1>26 DEF WaitSecond
    <2>2. /\ errs' \in Seq(Messages) /\ MessagesTrue'
          /\ Head(errs) \in Messages
          /\ Head(errs) = "inner ok" => session = "ok"
          /\ Head(errs) = "outer ok" =>
                outer = "ended" /\ \A i \in 1..Len(errs') : errs'[i] # "outer ok"
          /\ (\A i \in 1..Len(errs) : errs[i] # "outer ok") => Head(errs) # "outer ok"
        BY <2>1, TailTrue
    <2>3. PlacesOK'
        BY ZenonT(60), <1>26, <1>p DEF WaitSecond, PlacesOK, Return
    <2>4. FlagsOK'
        BY <1>26, <1>p DEF WaitSecond, FlagsOK, Return
    <2>5. CountsOK'
        BY <1>26, <1>t, <2>2 DEF WaitSecond, CountsOK
    <2>6. Story'
        BY <1>26, <1>s, <2>2 DEF WaitSecond, Story, ExecuteAt, SessionBegins, FirstMessage, ReturnTrue, Messages, Return
    <2>7. QED
        BY <2>2, <2>3, <2>4, <2>5, <2>6 DEF TunnelInv
<1>27. CASE UNCHANGED tunnelVars
    <2>1. PlacesOK' /\ FlagsOK'
        BY <1>27, <1>p DEF tunnelVars, PlacesOK, FlagsOK
    <2>2. CountsOK' /\ MessagesTrue'
        BY <1>27, <1>e, <1>t, <1>s DEF tunnelVars, CountsOK, MessagesTrue
    <2>3. Story'
        BY <1>27, <1>s DEF tunnelVars, Story, ExecuteAt, SessionBegins, FirstMessage, ReturnTrue
    <2>4. QED
        BY <2>1, <2>2, <2>3 DEF TunnelInv
<1>28. QED
    BY <1>1, <1>2, <1>3, <1>4, <1>5, <1>6, <1>7, <1>8, <1>9, <1>10, <1>11, <1>12, <1>13, <1>14, <1>15, <1>16, <1>17, <1>18, <1>19, <1>20, <1>21, <1>22, <1>23, <1>24, <1>25, <1>26, <1>27 DEF TunnelNext, Goroutines, Remote

\* The tunnels keep the shape of their state.
THEOREM TunnelTypeCorrect == TunnelSpec => []TunnelTypeOK
<1>1. TunnelInv => TunnelTypeOK
    BY DEF TunnelInv, PlacesOK, FlagsOK, CountsOK, TunnelTypeOK
<1>2. QED
    BY <1>1, TunnelInvInit, TunnelInvNext, PTL DEF TunnelSpec

\* ExecuteCommand never returns success without the result of a remote command that
\* ended well, whichever goroutine reports first and however many of them fail.
THEOREM SuccessHasResultHolds == TunnelSpec => []SuccessHasResult
<1>1. TunnelInv => SuccessHasResult
    BY DEF TunnelInv, Story, ReturnTrue, SessionBegins, SuccessHasResult
<1>2. QED
    BY <1>1, TunnelInvInit, TunnelInvNext, PTL DEF TunnelSpec

-----------------------------------------------------------------------------
(* Forwarded ports *)

\* Every period without a connection began with the end of one.
PeriodsCounted == generation + conns <= made

\* A timer of the current period, while nobody is connected, knows of every
\* connection that was made: one that came since would have begun a new period
\* when it went.  Timers are not newer than the period.
TimersKnow ==
    \A t \in timers :
        /\ t[1] <= generation
        /\ t[1] = generation /\ conns = 0 => t[2] = made

PortInv == PortTypeOK /\ PeriodsCounted /\ TimersKnow /\ IdleForWholeTimeout

\* The initial state satisfies the inductive invariant.
LEMMA PortInvInit == PortInit => PortInv
<1> SUFFICES ASSUME PortInit PROVE PortInv
  OBVIOUS
<1>1. PortTypeOK
  BY PortAssumption DEF PortInit, PortTypeOK, NoPass, Forwards
<1>2. PeriodsCounted /\ TimersKnow /\ IdleForWholeTimeout
  BY DEF PortInit, PeriodsCounted, TimersKnow, IdleForWholeTimeout
<1> QED BY <1>1, <1>2 DEF PortInv

\* Steps that leave the counter alone keep what is said about it.
LEMMA CounterKept ==
    ASSUME PeriodsCounted /\ TimersKnow /\ IdleForWholeTimeout, UNCHANGED counterVars
    PROVE  PeriodsCounted' /\ TimersKnow' /\ IdleForWholeTimeout'
BY DEF counterVars, PeriodsCounted, TimersKnow, IdleForWholeTimeout

\* Every step preserves the inductive invariant.
LEMMA PortInvNext == PortInv /\ [PortNext]_portVars => PortInv'
<1> SUFFICES ASSUME PortInv, [PortNext]_portVars PROVE PortInv'
  OBVIOUS
<1> USE PortAssumption
<1> USE DEF PortInv
<1>1. ASSUME NEW p \in Ports, Program(p) PROVE PortInv'
  <2>1. PortTypeOK' BY <1>1 DEF Program, PortTypeOK, counterVars
  <2> QED BY <1>1, <2>1, CounterKept DEF Program
<1>2. ASSUME NEW p \in Ports, StopForward(p) PROVE PortInv'
  <2>1. PortTypeOK' BY <1>2 DEF StopForward, PortTypeOK, counterVars, Forwards
  <2> QED BY <1>2, <2>1, CounterKept DEF StopForward
<1>3. ASSUME NEW p \in Ports, Forward(p) PROVE PortInv'
  <2>1. PortTypeOK' BY <1>3 DEF Forward, PortTypeOK, counterVars, Forwards
  <2> QED BY <1>3, <2>1, CounterKept DEF Forward
<1>4. ASSUME NEW p \in Ports, ListenerCloses(p) PROVE PortInv'
  <2>1. PortTypeOK' BY <1>4 DEF ListenerCloses, PortTypeOK, counterVars
  <2> QED BY <1>4, <2>1, CounterKept DEF ListenerCloses
<1>5. ASSUME NEW f \in Forwards, Listen(f) PROVE PortInv'
  <2>1. f[2] \in Ports /\ listener' \in {listener, [listener EXCEPT ![f[2]] = f]}
        /\ refused' \in {refused, refused \ {f[2]}, refused \cup {f[2]}} /\ starting' = starting \ {f}
        /\ UNCHANGED <<open, changes, gen, watched, pass, portMap, stopped, counterVars>>
    BY <1>5 DEF Listen, Forwards
  <2>2. PortTypeOK' BY <2>1 DEF PortTypeOK, counterVars
  <2> QED BY <2>1, <2>2, CounterKept
<1>6. CASE FindPorts
  <2>1. PortTypeOK' BY <1>6 DEF FindPorts, PortTypeOK, counterVars
  <2> QED BY <1>6, <2>1, CounterKept DEF FindPorts
<1>7. CASE PassDone
  <2>1. PortTypeOK' BY <1>7 DEF PassDone, PortTypeOK, counterVars, NoPass
  <2> QED BY <1>7, <2>1, CounterKept DEF PassDone
<1>8. CASE ServicesRetry
  <2>1. PortTypeOK' BY <1>8 DEF ServicesRetry, PortTypeOK, counterVars, NoPass
  <2> QED BY <1>8, <2>1, CounterKept DEF ServicesRetry
<1>9. CASE ConnectionAdd
  <2>1. conns' = conns + 1 /\ made' = made + 1 /\ made < MaxConnections
    BY <1>9 DEF ConnectionAdd
  <2>2. PortTypeOK'
    BY <1>9, <2>1 DEF ConnectionAdd, PortTypeOK, PeriodsCounted
  <2>3. PeriodsCounted' /\ TimersKnow'
    BY <1>9, <2>1 DEF ConnectionAdd, PortTypeOK, PeriodsCounted, TimersKnow
  <2>4. IdleForWholeTimeout'
    BY <1>9 DEF ConnectionAdd, IdleForWholeTimeout, Running
  <2> QED BY <2>2, <2>3, <2>4
<1>10. CASE ConnectionDec
  <2>1. PeriodsCounted'
    BY <1>10 DEF ConnectionDec, PortTypeOK, PeriodsCounted
  <2>2. PortTypeOK'
    BY <1>10 DEF ConnectionDec, PortTypeOK, PeriodsCounted
  <2>3. TimersKnow'
    <3>1. CASE conns = 1
      BY <1>10, <3>1 DEF ConnectionDec, PortTypeOK, TimersKnow
    <3>2. CASE conns # 1
      BY <1>10, <3>2 DEF ConnectionDec, PortTypeOK, TimersKnow
    <3> QED BY <3>1, <3>2
  <2>4. IdleForWholeTimeout'
    BY <1>10 DEF ConnectionDec, IdleForWholeTimeout, Running
  <2> QED BY <2>1, <2>2, <2>3, <2>4
<1>11. ASSUME NEW t \in timers, Timeout(t) PROVE PortInv'
  <2>1. PortTypeOK' BY <1>11 DEF Timeout, PortTypeOK
  <2>2. PeriodsCounted' /\ TimersKnow'
    BY <1>11 DEF Timeout, PeriodsCounted, TimersKnow
  <2>3. IdleForWholeTimeout'
    BY <1>11 DEF Timeout, TimersKnow, IdleForWholeTimeout
  <2> QED BY <2>1, <2>2, <2>3
<1>12. CASE UNCHANGED portVars
  BY <1>12 DEF portVars, PortTypeOK, PeriodsCounted, TimersKnow, IdleForWholeTimeout
<1>13. ASSUME NEW p \in Ports, OtherProgram(p) PROVE PortInv'
  <2>1. PortTypeOK' BY <1>13 DEF OtherProgram, PortTypeOK, counterVars
  <2> QED BY <1>13, <2>1, CounterKept DEF OtherProgram
<1> QED
  BY <1>1, <1>2, <1>3, <1>4, <1>5, <1>6, <1>7, <1>8, <1>9, <1>10, <1>11, <1>12, <1>13 DEF PortNext

\* The state of watcher, forwarder and counter keeps its shape.
THEOREM PortTypeCorrect == PortSpec => []PortTypeOK
<1>1. PortInv => PortTypeOK
  BY DEF PortInv
<1> QED BY PortInvInit, PortInvNext, <1>1, PTL DEF PortSpec

\* The timeout of connection_counter.go ends the client only when no connection was
\* made while it ran.
THEOREM IdleForWholeTimeoutHolds == PortSpec => []IdleForWholeTimeout
<1>1. PortInv => IdleForWholeTimeout
  BY DEF PortInv
<1> QED BY PortInvInit, PortInvNext, <1>1, PTL DEF PortSpec

-----------------------------------------------------------------------------
(* Credentials in the container *)

\* The places of a server that has found the port free and does not serve yet or
\* any more.
Configuring == Starting \cup Ending

\* Who serves the port is who holds it; a server belongs to a session.
PortHeld ==
    /\ \A s \in Sessions : srv[s] = "serving" <=> port = s
    /\ \A s \in Sessions : client[s] = "off" => srv[s] = "off"

\* Unless two found the port free, at most one server changes the configuration, and
\* only while nobody serves.
OneConfigures ==
    ~torn => /\ \A s, t \in Sessions : srv[s] \in Configuring /\ srv[t] \in Configuring => s = t
             /\ \A s \in Sessions : srv[s] \in Configuring => port = NoSession

\* What that server knows of the file.
FileKnown ==
    ~torn => \A s \in Sessions :
        /\ srv[s] \in {"writeCred", "writeSign"} => seen[s] = gitcfg
        /\ srv[s] \in {"readSign", "writeSign", "listen"} /\ s \in gitHelper => gitcfg.cred = "devpod"

CredInv == CredTypeOK /\ PortHeld /\ OneConfigures /\ FileKnown /\ ListeningIsConfigured

\* What the changes of the git configuration keep and what they set.
LEMMA GitConfigChanges ==
    /\ Empty \in GitConfigs
    /\ \A c \in GitConfigs :
          /\ WithUser(c) \in GitConfigs /\ WithUser(c).cred = c.cred
          /\ WithCredentialHelper(c) \in GitConfigs /\ WithCredentialHelper(c).cred = "devpod"
          /\ WithoutCredentialHelper(c) \in GitConfigs
          /\ WithSigningHelper(c) \in GitConfigs /\ WithSigningHelper(c).cred = c.cred
          /\ WithoutSigningHelper(c) \in GitConfigs
  BY DEF Empty, GitConfigs, WithUser, WithCredentialHelper, WithoutCredentialHelper,
         WithSigningHelper, WithoutSigningHelper

\* The request of a session that has none is a request record.
LEMMA NoRequestIsOne == NoRequest \in Requests
  BY DEF NoRequest, Requests

\* The initial states satisfy the invariant.
LEMMA CredInvInit == CredInit => CredInv
<1> SUFFICES ASSUME CredInit PROVE CredInv
  OBVIOUS
<1>1. CredTypeOK
  <2>1. gitcfg \in {Empty, [cred |-> "user", sign |-> FALSE, ident |-> TRUE]} BY DEF CredInit
  <2>2. gitcfg \in GitConfigs
    <3>1. [cred |-> "user", sign |-> FALSE, ident |-> TRUE] \in GitConfigs BY DEF GitConfigs
    <3> QED BY <2>1, <3>1, GitConfigChanges
  <2>3. /\ serverRuns \in [Sessions -> 0..MaxServerRuns]
        /\ asks \in 0..MaxAsks /\ credFaults \in 0..MaxCredFaults
    BY CredAssumption DEF CredInit
  <2>4. seen \in [Sessions -> GitConfigs] /\ ask \in Requests
    BY GitConfigChanges, NoRequestIsOne DEF CredInit
  <2> QED BY <2>2, <2>3, <2>4 DEF CredInit, CredTypeOK
<1>2. PortHeld /\ OneConfigures /\ FileKnown /\ ListeningIsConfigured
  BY CredAssumption
  DEF CredInit, PortHeld, OneConfigures, FileKnown, ListeningIsConfigured,
      Configuring, Starting, Ending
<1> QED BY <1>1, <1>2 DEF CredInv

\* Every step of a session, of its server and of a request keeps it.
LEMMA CredInvNext == CredInv /\ [CredNext]_credVars => CredInv'
<1> SUFFICES ASSUME CredInv, [CredNext]_credVars PROVE CredInv'
  OBVIOUS
<1>t. CredTypeOK BY DEF CredInv
<1>s. srv \in [Sessions -> Up \cup {"off"}] /\ client \in [Sessions -> {"off", "services", "blocked", "ended"}]
  BY DEF CredInv, CredTypeOK
<1>f. CredFault => credFaults' \in 0..MaxCredFaults
  BY <1>t, CredAssumption DEF CredFault, CredTypeOK
<1>g. gitcfg \in GitConfigs /\ \A s \in Sessions : seen[s] \in GitConfigs
  BY <1>t DEF CredTypeOK
<1> USE CredAssumption
<1> USE DEF CredInv, PortHeld, OneConfigures, FileKnown, ListeningIsConfigured, Configuring,
            Starting, Ending, To
<1>1. ASSUME NEW s \in Sessions, OpenSession(s) PROVE CredInv'
  <2>1. CredTypeOK' BY <1>1 DEF OpenSession, CredTypeOK, Up
  <2> QED BY <1>1, <1>s, <2>1 DEF OpenSession
<1>2. ASSUME NEW s \in Sessions, Retry(s) PROVE CredInv'
  <2>1. CredTypeOK' BY <1>2 DEF Retry, CredTypeOK, Up
  <2> QED BY <1>2, <1>s, <2>1 DEF Retry
<1>3. ASSUME NEW s \in Sessions, CloseSession(s) PROVE CredInv'
  <2>1. CredTypeOK' BY <1>3, <1>f, GitConfigChanges DEF CloseSession, CredTypeOK
  <2> QED BY <1>3, <1>s, <2>1 DEF CloseSession
<1>4. ASSUME NEW s \in Sessions, ServerKilled(s) PROVE CredInv'
  <2>1. CredTypeOK' BY <1>4, <1>f, GitConfigChanges DEF ServerKilled, CredTypeOK
  <2> QED BY <1>4, <1>s, <2>1 DEF ServerKilled
<1>5. ASSUME NEW s \in Sessions, PingClient(s) PROVE CredInv'
  <2>1. CredTypeOK' BY <1>5 DEF PingClient, CredTypeOK, Up
  <2> QED BY <1>5, <1>s, <2>1 DEF PingClient
<1>6. ASSUME NEW s \in Sessions, CheckPort(s) PROVE CredInv'
  <2>1. CredTypeOK' BY <1>6 DEF CheckPort, CredTypeOK, Up
  <2>2. CASE port # NoSession
    BY <1>6, <1>s, <2>1, <2>2 DEF CheckPort
  <2>3. CASE port = NoSession /\ torn'
    BY <1>6, <1>s, <2>1, <2>3 DEF CheckPort
  <2>4. CASE port = NoSession /\ ~torn'
    <3>1. ~torn /\ \A t \in Sessions \ {s} : srv[t] \notin Configuring
      BY <1>6, <2>4 DEF CheckPort
    <3> QED BY <1>6, <1>s, <2>1, <2>4, <3>1 DEF CheckPort
  <2> QED BY <2>2, <2>3, <2>4
<1>7. ASSUME NEW s \in Sessions, ConfigureDocker(s) PROVE CredInv'
  <2>0. docker' \in BOOLEAN
    BY <1>7, <1>t, Zenon DEF ConfigureDocker, CredTypeOK
  <2>1. CredTypeOK'
    <3>1. CASE To(s, "user") /\ UNCHANGED credFaults
      BY <1>7, <2>0, <3>1 DEF ConfigureDocker, CredTypeOK, Up
    <3>2. CASE To(s, "off") /\ CredFault
      BY <1>7, <2>0, <3>2, <1>f DEF ConfigureDocker, CredTypeOK
    <3> QED BY <1>7, <3>1, <3>2 DEF ConfigureDocker
  <2>2. /\ srv[s] = "docker" /\ (To(s, "user") \/ To(s, "off"))
        /\ UNCHANGED <<client, gitHelper, serverRuns, port, gitcfg, seen, torn>>
    BY <1>7 DEF ConfigureDocker
  <2> QED BY <1>s, <2>1, <2>2
<1>8. ASSUME NEW s \in Sessions, ConfigureGitUser(s) PROVE CredInv'
  <2>1. CredTypeOK' BY <1>8, <1>f, GitConfigChanges DEF ConfigureGitUser, CredTypeOK, Up
  <2> QED BY <1>8, <1>s, <1>g, <2>1, GitConfigChanges DEF ConfigureGitUser
<1>9. ASSUME NEW s \in Sessions, ConfigureHelper(s) PROVE CredInv'
  <2>1. gitcfg' \in GitConfigs
    BY <1>9, <1>g, GitConfigChanges DEF ConfigureHelper, ReadGitConfig, WriteGitConfig, ConfigFails
  <2>2. CredTypeOK'
    BY <1>9, <1>f, <2>1, GitConfigChanges
    DEF ConfigureHelper, ReadGitConfig, WriteGitConfig, ConfigFails, CredTypeOK, Up
  <2>3. WithCredentialHelper(seen[s]).cred = "devpod"
    BY <1>g, GitConfigChanges
  <2> QED
    BY <1>9, <1>s, <1>t, <2>2, <2>3 DEF ConfigureHelper, ReadGitConfig, WriteGitConfig, ConfigFails, CredTypeOK
<1>10. ASSUME NEW s \in Sessions, ConfigureSigning(s) PROVE CredInv'
  <2>1. gitcfg' \in GitConfigs
    BY <1>10, <1>g, GitConfigChanges DEF ConfigureSigning, ReadGitConfig, WriteGitConfig, ConfigFails
  <2>2. CredTypeOK'
    BY <1>10, <1>f, <2>1, GitConfigChanges
    DEF ConfigureSigning, ReadGitConfig, WriteGitConfig, ConfigFails, CredTypeOK, Up
  <2>3. WithSigningHelper(seen[s]).cred = seen[s].cred
    BY <1>g, GitConfigChanges
  <2> QED
    BY <1>10, <1>s, <1>t, <2>2, <2>3 DEF ConfigureSigning, ReadGitConfig, WriteGitConfig, ConfigFails, CredTypeOK
<1>11. ASSUME NEW s \in Sessions, ListenOnPort(s) PROVE CredInv'
  <2>1. CredTypeOK' BY <1>11 DEF ListenOnPort, CredTypeOK, Up
  <2> QED BY <1>11, <1>s, <2>1 DEF ListenOnPort
<1>12. ASSUME NEW s \in Sessions, RemoveSigning(s) \/ RemoveHelper(s) PROVE CredInv'
  <2>1. gitcfg' \in GitConfigs
    BY <1>12, <1>g, GitConfigChanges DEF RemoveSigning, RemoveHelper, ReadGitConfig, WriteGitConfig
  <2>2. CredTypeOK'
    BY <1>12, <2>1, GitConfigChanges DEF RemoveSigning, RemoveHelper, ReadGitConfig, WriteGitConfig, CredTypeOK, Up
  <2>3. srv[s] \in Ending BY <1>12 DEF RemoveSigning, RemoveHelper, ReadGitConfig, WriteGitConfig
  <2> QED
    BY <1>12, <1>s, <2>2, <2>3 DEF RemoveSigning, RemoveHelper, ReadGitConfig, WriteGitConfig
<1>13. ASSUME NEW what \in {"git", "docker"}, Ask(what) PROVE CredInv'
  <2>1. ask' \in Requests BY <1>13 DEF Ask, NoRequest, Requests
  <2>2. asks' \in 0..MaxAsks BY <1>13, <1>t DEF Ask, CredTypeOK
  <2>3. CredTypeOK' BY <1>13, <2>1, <2>2 DEF Ask, CredTypeOK
  <2> QED BY <1>13, <2>3 DEF Ask
<1>14. CASE Answering
  <2>1. ask' \in Requests
    <3>1. CASE ask' = NoRequest
      BY <3>1, NoRequestIsOne
    <3>2. CASE ask' = [ask EXCEPT !.at = "server", !.by = port] \/ ask' = [ask EXCEPT !.at = "client"]
      BY <3>2, <1>t DEF CredTypeOK, Requests
    <3> QED
      BY <1>14, <3>1, <3>2 DEF Answering, GitPosts, DockerPosts, ServerPasses, AnswerGit,
                               AnswerDocker, RequestLost
  <2>2. UNCHANGED <<client, gitHelper, srv, serverRuns, port, gitcfg, seen, docker, torn, asks, credFaults>>
    BY <1>14 DEF Answering, GitPosts, DockerPosts, ServerPasses, AnswerGit, AnswerDocker, RequestLost
  <2>3. CredTypeOK' BY <1>t, <2>1, <2>2 DEF CredTypeOK
  <2> QED BY <2>2, <2>3
<1>15. CASE UNCHANGED credVars
  BY <1>15 DEF credVars, CredTypeOK
<1> QED
  BY <1>1, <1>2, <1>3, <1>4, <1>5, <1>6, <1>7, <1>8, <1>9, <1>10, <1>11, <1>12, <1>13, <1>14, <1>15
  DEF CredNext, ServerStep

\* The invariant holds in every reachable state.
LEMMA CredInvAlways == CredSpec => []CredInv
  BY CredInvInit, CredInvNext, PTL DEF CredSpec

\* The state of the sessions and of the shared configuration keeps its shape.
THEOREM CredTypeCorrect == CredSpec => []CredTypeOK
  BY CredInvAlways, PTL DEF CredInv

\* However many sessions come, go and are killed: while a credentials server that was
\* started with --configure-git-helper listens, git in the container is configured to
\* ask it, unless two servers found the port free at the same time or a write was cut off.
THEOREM ListeningIsConfiguredHolds == CredSpec => []ListeningIsConfigured
  BY CredInvAlways, PTL DEF CredInv

=============================================================================

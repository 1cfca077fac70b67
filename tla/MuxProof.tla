------------------------------- MODULE MuxProof -------------------------------
(***************************************************************************)
(* No peer of a listener is cut off, for any number of listeners,          *)
(* addresses and sessions and any buffer sizes.                            *)
(***************************************************************************)
EXTENDS Mux, TLAPS

(* A session in a listener's map is open, its listener's and its address's. *)
Listed ==
    \A l \in Listener : \A x \in Heard :
        byAddr[l][x] # NoSess =>
            LET s == byAddr[l][x] IN
            state[s] = "open" /\ ln[s] = l /\ key[s] = x

(* An attached session has its own address and a reader.                    *)
Attached ==
    \A x \in Addr :
        sessions[x] # NoSess =>
            LET s == sessions[x] IN key[s] = x /\ loop[s] # "none"

(* A session of l (or dialled) on its way to Attach: it has no reader yet.  *)
Awaited(s, l) == /\ s \in Sess
                 /\ state[s] # "none" /\ loop[s] = "none"
                 /\ key[s] \in Addr /\ ln[s] = l

OnTheWay ==
    /\ \A l \in Listener :
          /\ inbound[l] # NoSess => Awaited(inbound[l], l)
          /\ start[l].at = "offer" => /\ Awaited(start[l].sess, l)
                                     /\ start[l].sess # inbound[l]
          /\ start[l].at = "deliver" => start[l].sess \in Sess
    /\ dialing.at = "attach" => Awaited(dialing.sess, NoListener)
    /\ dialing.at = "handshake" => /\ dialing.sess \in Sess
                                   /\ state[dialing.sess] # "none"
                                   /\ ln[dialing.sess] = NoListener

(* What does not exist has no reader.                                       *)
Unborn == \A s \in Sess : state[s] = "none" => loop[s] = "none"

IInv == TypeOK /\ Listed /\ Attached /\ OnTheWay /\ Unborn /\ PeersAreRead

LEMMA NoSessOutside == NoSess \notin Sess /\ NoListener \notin Listener
BY MuxAssumption DEF NoSess, Sess

LEMMA InitIInv == Init => IInv
<1> SUFFICES ASSUME Init PROVE IInv
  OBVIOUS
<1>1. TypeOK
  BY MuxAssumption DEF Init, TypeOK, At, Place, NoSess
<1> QED BY <1>1, NoSessOutside
       DEF Init, IInv, Listed, Attached, OnTheWay, Unborn, PeersAreRead, At
(* Closing the sessions S.                                                  *)
LEMMA CloseAllKeeps ==
    ASSUME IInv, NEW S \in SUBSET Sess, CloseAll(S)
    PROVE  /\ byAddr' \in [Listener -> [Heard -> Sess \cup {NoSess}]]
           /\ state' \in [Sess -> {"none", "open", "failed", "closed"}]
           /\ \A s \in Sess \ S : state'[s] = state[s]
           /\ \A s \in Sess : state[s] # "none" => state'[s] # "none"
           /\ \A l \in Listener : \A x \in Heard :
                 byAddr'[l][x] # NoSess => /\ byAddr'[l][x] = byAddr[l][x]
                                          /\ byAddr[l][x] \notin S
BY DEF CloseAll, Forgotten, IInv, TypeOK

(* What stays in the listeners' maps when sessions are closed is unharmed.  *)
LEMMA ForgottenListed ==
    ASSUME IInv, NEW S \in SUBSET Sess, UNCHANGED <<key, ln>>,
           \A s \in Sess \ S : state'[s] = state[s],
           \A l \in Listener : \A x \in Heard :
              byAddr'[l][x] # NoSess => /\ byAddr'[l][x] = byAddr[l][x]
                                       /\ byAddr[l][x] \notin S
    PROVE  Listed'
<1>1. SUFFICES ASSUME NEW m \in Listener, NEW x \in Heard, byAddr'[m][x] # NoSess
               PROVE  LET t == byAddr'[m][x] IN
                      state'[t] = "open" /\ ln'[t] = m /\ key'[t] = x
  BY DEF Listed
<1>2. byAddr'[m][x] = byAddr[m][x] /\ byAddr[m][x] \in Sess \ S
  BY <1>1 DEF IInv, TypeOK
<1>3. state[byAddr[m][x]] = "open" /\ ln[byAddr[m][x]] = m /\ key[byAddr[m][x]] = x
  BY <1>1, <1>2 DEF IInv, Listed
<1> QED BY <1>2, <1>3

(* Datagram: a new session is offered before anybody else knows it.         *)
LEMMA DatagramIInv ==
    ASSUME IInv, NEW l \in Listener, NEW x \in Heard, Datagram(l, x)
    PROVE  IInv'
<1> USE DEF IInv
<1>0. /\ NoSess \notin Sess /\ NoListener \notin Listener
      /\ Heard \subseteq Addr /\ NoAddr \notin Addr
  BY NoSessOutside, MuxAssumption DEF Addr
<1>1. CASE byAddr[l][x] # NoSess /\ start' = [start EXCEPT ![l] = At("deliver", byAddr[l][x])]
           /\ UNCHANGED <<byAddr, key, ln, state>>
  <2>1. UNCHANGED <<sessions, recv, loop, inbound, dialing, in, closing>>
    BY DEF Datagram
  <2>2. byAddr[l][x] \in Sess
    BY <1>1 DEF TypeOK
  <2>3. start' \in [Listener -> Place]
    BY <1>1, <2>2 DEF TypeOK, At, Place
  <2>4. TypeOK'
    BY <1>1, <2>1, <2>3 DEF TypeOK
  <2>5. \A m \in Listener : m # l => start'[m] = start[m]
    BY <1>1 DEF TypeOK
  <2>6. start'[l].at = "deliver" /\ start'[l].sess = byAddr[l][x]
    BY <1>1 DEF TypeOK, At
  <2>7. start[l].at # "offer"
    BY DEF Datagram
  <2>8. Listed' /\ Attached' /\ Unborn'
    BY <1>1, <2>1 DEF Listed, Attached, Unborn
  <2>9. OnTheWay'
    BY <1>1, <2>1, <2>2, <2>5, <2>6 DEF OnTheWay, Awaited
  <2>10. PeersAreRead'
    BY <1>1, <2>1, <2>5, <2>7 DEF PeersAreRead, At
  <2> QED BY <2>4, <2>8, <2>9, <2>10
<1>2. ASSUME NEW s \in Sess, Created(s, l, x), byAddr[l][x] = NoSess,
             byAddr' = [byAddr EXCEPT ![l][x] = s],
             start' = [start EXCEPT ![l] = At("offer", s)]
      PROVE  IInv'
  <2>1. UNCHANGED <<sessions, recv, loop, inbound, dialing, in, closing>>
    BY DEF Datagram
  <2>2. /\ state[s] = "none" /\ state'[s] = "open" /\ key'[s] = x /\ ln'[s] = l
        /\ \A t \in Sess : t # s => state'[t] = state[t] /\ key'[t] = key[t] /\ ln'[t] = ln[t]
        /\ loop[s] = "none"
    BY <1>2 DEF Created, TypeOK, Unborn
  <2>3. TypeOK'
    BY <1>0, <1>2, <2>1 DEF TypeOK, Created, At, Place
  <2>4. /\ byAddr'[l][x] = s
        /\ \A m \in Listener : \A y \in Heard : m # l \/ y # x => byAddr'[m][y] = byAddr[m][y]
    BY <1>2 DEF TypeOK
  <2>5. /\ start'[l] = At("offer", s) /\ start'[l].at = "offer" /\ start'[l].sess = s
        /\ \A m \in Listener : m # l => start'[m] = start[m]
    BY <1>2 DEF TypeOK, At
  <2>6. Listed'
    <3>1. SUFFICES ASSUME NEW m \in Listener, NEW y \in Heard, byAddr'[m][y] # NoSess
                   PROVE  LET t == byAddr'[m][y] IN
                          state'[t] = "open" /\ ln'[t] = m /\ key'[t] = y
      BY DEF Listed
    <3>2. CASE m = l /\ y = x
      BY <2>2, <2>4, <3>2
    <3>3. CASE m # l \/ y # x
      <4>1. byAddr'[m][y] = byAddr[m][y] /\ byAddr[m][y] \in Sess
        BY <2>4, <3>1, <3>3 DEF TypeOK
      <4>2. /\ state[byAddr[m][y]] = "open" /\ ln[byAddr[m][y]] = m
            /\ key[byAddr[m][y]] = y
        BY <3>1, <4>1 DEF Listed
      <4> QED BY <2>2, <4>1, <4>2
    <3> QED BY <3>2, <3>3
  <2>7. Attached'
    BY <1>0, <2>1, <2>2 DEF Attached, TypeOK
  <2>8. Unborn'
    BY <2>1, <2>2 DEF Unborn
  <2>9. inbound[l] # s
    BY <1>0, <2>2 DEF OnTheWay, Awaited
  <2>13. ASSUME NEW t, NEW m, Awaited(t, m) PROVE Awaited(t, m)'
    BY <2>1, <2>2, <2>13 DEF Awaited
  <2>14. Awaited(s, l)'
    BY <1>0, <2>1, <2>2 DEF Awaited
  <2>15. (dialing.at = "handshake" => /\ dialing.sess \in Sess
                                      /\ state[dialing.sess] # "none"
                                      /\ ln[dialing.sess] = NoListener)'
    <3>1. SUFFICES ASSUME dialing.at = "handshake"
                   PROVE  /\ dialing.sess \in Sess
                          /\ state'[dialing.sess] # "none"
                          /\ ln'[dialing.sess] = NoListener
      BY <2>1
    <3>2. dialing.sess # s
      BY <2>2, <3>1 DEF OnTheWay
    <3> QED BY <2>2, <3>1, <3>2 DEF OnTheWay
  <2>10. OnTheWay'
    <3>1. ASSUME NEW m \in Listener
          PROVE  (inbound[m] # NoSess => Awaited(inbound[m], m))'
      BY <2>1, <2>13 DEF OnTheWay
    <3>2. ASSUME NEW m \in Listener
          PROVE  (/\ start[m].at = "offer" => /\ Awaited(start[m].sess, m)
                                            /\ start[m].sess # inbound[m]
                  /\ start[m].at = "deliver" => start[m].sess \in Sess)'
      BY <2>1, <2>5, <2>9, <2>13, <2>14 DEF OnTheWay
    <3>3. (dialing.at = "attach" => Awaited(dialing.sess, NoListener))'
      BY <2>1, <2>13 DEF OnTheWay
    <3> QED BY <2>1, <2>15, <3>1, <3>2, <3>3 DEF OnTheWay
  <2>11. start[l].at = "idle"
    BY DEF Datagram
  <2>12. PeersAreRead'
    BY <2>1, <2>4, <2>5, <2>11 DEF PeersAreRead, At
  <2> QED BY <2>3, <2>6, <2>7, <2>8, <2>10, <2>12
<1> QED BY <1>1, <1>2 DEF Datagram

(* Attach: the session it replaces leaves its listener's map; s is read.    *)
LEMMA AttachKeeps ==
    ASSUME IInv, NEW s \in Sess, NEW l \in Listener \cup {NoListener},
           Awaited(s, l), Attach(s), UNCHANGED <<key, ln, closing>>,
           inbound' \in [Listener -> Sess \cup {NoSess}],
           start' = start, dialing' \in Place,
           \A m \in Listener :
              inbound'[m] = inbound[m] \/ (m = l /\ inbound[m] = s /\ inbound'[m] = NoSess),
           l \in Listener => inbound[l] = s /\ inbound'[l] = NoSess /\ dialing' = dialing,
           l = NoListener => dialing.at = "attach" /\ dialing.sess = s
                             /\ dialing' = At("handshake", s),
           recv' = recv, in' = in
    PROVE  IInv'
<1> USE DEF IInv
<1> DEFINE k == key[s]
           S == {sessions[k]} \ {NoSess}
<1>0. /\ NoSess \notin Sess /\ NoListener \notin Listener
      /\ Heard \subseteq Addr
  BY NoSessOutside, MuxAssumption DEF Addr
<1>1. k \in Addr /\ S \subseteq Sess /\ s \notin S /\ state[s] # "none" /\ loop[s] = "none" /\ ln[s] = l
  BY <1>0 DEF Awaited, Attached, TypeOK
<1>2. /\ CloseAll(S)
      /\ sessions' = [sessions EXCEPT ![k] = s]
      /\ loop' = [loop EXCEPT ![s] = "recv"]
  BY DEF Attach
<1>3. /\ byAddr' \in [Listener -> [Heard -> Sess \cup {NoSess}]]
      /\ state' \in [Sess -> {"none", "open", "failed", "closed"}]
      /\ \A t \in Sess \ S : state'[t] = state[t]
      /\ \A t \in Sess : state[t] # "none" => state'[t] # "none"
      /\ \A m \in Listener : \A x \in Heard :
            byAddr'[m][x] # NoSess => /\ byAddr'[m][x] = byAddr[m][x]
                                     /\ byAddr[m][x] \notin S
  BY <1>1, <1>2, CloseAllKeeps
<1>4. TypeOK'
  BY <1>1, <1>2, <1>3 DEF TypeOK
<1>5. Listed'
  <2>1. UNCHANGED <<key, ln>> /\ S \in SUBSET Sess
    BY <1>1
  <2> HIDE DEF S, IInv
  <2> QED BY <1>3, <2>1, ForgottenListed
<1>6. Attached'
  BY <1>1, <1>2 DEF Attached, TypeOK
<1>7. Unborn'
  <2>1. \A t \in S : loop[t] # "none" /\ state[t] # "none"
    BY <1>1 DEF Attached, Unborn
  <2> QED BY <1>1, <1>2, <1>3, <2>1 DEF Unborn, TypeOK
<1>8. ASSUME NEW t, NEW m, t # s, Awaited(t, m) PROVE Awaited(t, m)'
  BY <1>2, <1>3, <1>8 DEF Awaited, TypeOK
<1>9. \A m \in Listener : start[m].at = "offer" => start[m].sess # s
  BY <1>0, <1>1 DEF OnTheWay, Awaited
<1>10. \A m \in Listener : inbound'[m] # NoSess => inbound'[m] = inbound[m] /\ inbound[m] # s
  BY <1>0, <1>1 DEF OnTheWay, Awaited
<1>11. OnTheWay'
  <2>1. ASSUME NEW m \in Listener
        PROVE  (inbound[m] # NoSess => Awaited(inbound[m], m))'
    BY <1>8, <1>10 DEF OnTheWay
  <2>2. ASSUME NEW m \in Listener
        PROVE  (/\ start[m].at = "offer" => /\ Awaited(start[m].sess, m)
                                          /\ start[m].sess # inbound[m]
                /\ start[m].at = "deliver" => start[m].sess \in Sess)'
    <3>1. start[m].at = "offer" => start[m].sess # NoSess
      BY <1>0 DEF OnTheWay, Awaited
    <3> QED BY <1>8, <1>9, <1>10, <3>1 DEF OnTheWay
  <2>3. (dialing.at = "attach" => Awaited(dialing.sess, NoListener))'
    <3>1. CASE l \in Listener
      <4>1. dialing.at = "attach" => dialing.sess # s
        BY <1>0, <1>1, <3>1 DEF OnTheWay, Awaited
      <4> QED BY <1>8, <3>1, <4>1 DEF OnTheWay
    <3>2. CASE l = NoListener
      BY <3>2 DEF At
    <3> QED BY <3>1, <3>2
  <2>4. (dialing.at = "handshake" => /\ dialing.sess \in Sess
                                     /\ state[dialing.sess] # "none"
                                     /\ ln[dialing.sess] = NoListener)'
    <3>1. CASE l \in Listener
      BY <1>3, <3>1 DEF OnTheWay
    <3>2. CASE l = NoListener
      BY <1>1, <1>3, <3>2 DEF At
    <3> QED BY <3>1, <3>2
  <2> QED BY <2>1, <2>2, <2>3, <2>4 DEF OnTheWay
<1>12. PeersAreRead'
  <2>1. SUFFICES ASSUME closing = "open", NEW m \in Listener, NEW x \in Heard,
                        byAddr'[m][x] # NoSess
                 PROVE  \/ start'[m] = At("offer", byAddr'[m][x])
                        \/ inbound'[m] = byAddr'[m][x]
                        \/ /\ sessions'[x] = byAddr'[m][x]
                           /\ loop'[byAddr'[m][x]] \in {"recv", "send"}
    BY DEF PeersAreRead
  <2> DEFINE t == byAddr[m][x]
  <2>2. byAddr'[m][x] = t /\ t \in Sess /\ t \notin S /\ key[t] = x /\ ln[t] = m
    BY <1>3, <2>1 DEF Listed, TypeOK
  <2>3. \/ start[m] = At("offer", t)
        \/ inbound[m] = t
        \/ sessions[x] = t /\ loop[t] \in {"recv", "send"}
    BY <1>0, <2>1, <2>2 DEF PeersAreRead
  <2>4. CASE t = s
    BY <1>1, <1>2, <2>2, <2>4 DEF TypeOK
  <2>5. CASE t # s /\ inbound[m] = t
    BY <2>2, <2>5
  <2>6. CASE t # s /\ sessions[x] = t /\ loop[t] \in {"recv", "send"}
    <3>1. x # k
      BY <1>0, <2>2, <2>6
    <3> QED BY <1>0, <1>2, <2>2, <2>6, <3>1 DEF TypeOK
  <2> QED BY <2>2, <2>3, <2>4, <2>5, <2>6
<1> QED BY <1>4, <1>5, <1>6, <1>7, <1>11, <1>12

LEMMA ListeningIInv ==
    ASSUME IInv, NEW l \in Listener,
           Offer(l) \/ Deliver(l) \/ StartEnds(l) \/ StartFails(l) \/ Inbound(l)
    PROVE  IInv'
<1> USE DEF IInv
<1>0. NoSess \notin Sess /\ NoListener \notin Listener
  BY NoSessOutside
<1>1. CASE Offer(l)
  <2>1. /\ start[l].at = "offer" /\ start[l].sess \in Sess /\ Awaited(start[l].sess, l)
        /\ inbound[l] = NoSess
    BY <1>1 DEF Offer, OnTheWay, Awaited
  <2>2. /\ inbound' = [inbound EXCEPT ![l] = start[l].sess]
        /\ start' = [start EXCEPT ![l].at = "deliver"]
        /\ UNCHANGED <<sessions, byAddr, key, ln, state, recv, loop, dialing, in, closing>>
    BY <1>1 DEF Offer
  <2>3. /\ inbound'[l] = start[l].sess
        /\ start'[l].at = "deliver" /\ start'[l].sess = start[l].sess
        /\ start'[l] \in Place
        /\ \A m \in Listener : m # l => start'[m] = start[m] /\ inbound'[m] = inbound[m]
    BY <2>1, <2>2 DEF TypeOK, Place
  <2>4. TypeOK'
    BY <2>1, <2>2, <2>3 DEF TypeOK
  <2>5. Listed' /\ Attached' /\ Unborn'
    BY <2>2 DEF Listed, Attached, Unborn
  <2>6. OnTheWay'
    BY <2>1, <2>2, <2>3 DEF OnTheWay, Awaited
  <2>7. PeersAreRead'
    BY <1>0, <2>1, <2>2, <2>3 DEF PeersAreRead, At
  <2> QED BY <2>4, <2>5, <2>6, <2>7
<1>2. CASE Deliver(l)
  <2>1. start[l].at = "deliver" /\ start[l].sess \in Sess
    BY <1>2 DEF Deliver, OnTheWay
  <2>2. /\ start' = [start EXCEPT ![l] = At("idle", NoSess)]
        /\ UNCHANGED <<sessions, byAddr, key, ln, state, loop, inbound, dialing, in, closing>>
    BY <1>2 DEF Deliver
  <2>3. recv' \in [Sess -> 0 .. RecvCap]
    BY <1>2, <2>1, MuxAssumption DEF Deliver, TypeOK
  <2>4. /\ start'[l].at = "idle" /\ start' \in [Listener -> Place]
        /\ \A m \in Listener : m # l => start'[m] = start[m]
    BY <2>2 DEF TypeOK, At, Place
  <2>5. TypeOK'
    BY <2>2, <2>3, <2>4 DEF TypeOK
  <2>6. Listed' /\ Attached' /\ Unborn'
    BY <2>2 DEF Listed, Attached, Unborn
  <2>7. OnTheWay'
    BY <2>2, <2>4 DEF OnTheWay, Awaited
  <2>8. PeersAreRead'
    BY <2>1, <2>2, <2>4 DEF PeersAreRead, At
  <2> QED BY <2>5, <2>6, <2>7, <2>8
<1>3. CASE StartEnds(l) \/ StartFails(l)
  <2>1. /\ start' = [start EXCEPT ![l] = At("ended", NoSess)]
        /\ UNCHANGED <<sessions, byAddr, key, ln, state, recv, loop, inbound, dialing, in, closing>>
    BY <1>3 DEF StartEnds, StartFails
  <2>2. /\ start'[l].at = "ended" /\ start' \in [Listener -> Place]
        /\ \A m \in Listener : m # l => start'[m] = start[m]
    BY <2>1 DEF TypeOK, At, Place
  <2>3. TypeOK'
    BY <2>1, <2>2 DEF TypeOK
  <2>4. Listed' /\ Attached' /\ Unborn'
    BY <2>1 DEF Listed, Attached, Unborn
  <2>5. OnTheWay'
    BY <2>1, <2>2 DEF OnTheWay, Awaited
  <2>6. PeersAreRead'
    <3>1. start[l].at \in {"idle", "offer"} /\ (start[l].at = "offer" => Cancelled)
      BY <1>3 DEF StartEnds, StartFails
    <3>2. ASSUME closing = "open", NEW m \in Listener, NEW s \in Sess
          PROVE  start[m] = At("offer", s) => start'[m] = start[m]
      BY <2>2, <3>1, <3>2 DEF Cancelled, At
    <3> QED BY <2>1, <2>3, <3>2 DEF PeersAreRead, TypeOK
  <2> QED BY <2>3, <2>4, <2>5, <2>6
<1>4. CASE Inbound(l)
  <2>1. inbound[l] \in Sess /\ Awaited(inbound[l], l)
    BY <1>4 DEF Inbound, OnTheWay, Awaited
  <2>2. /\ inbound' = [inbound EXCEPT ![l] = NoSess]
        /\ UNCHANGED <<key, ln, recv, start, dialing, in, closing>>
        /\ Attach(inbound[l])
    BY <1>4 DEF Inbound
  <2>3. /\ inbound' \in [Listener -> Sess \cup {NoSess}] /\ inbound'[l] = NoSess
        /\ \A m \in Listener : m # l => inbound'[m] = inbound[m]
    BY <2>2 DEF TypeOK
  <2>4. dialing' \in Place
    BY <2>2 DEF TypeOK
  <2> QED BY <1>0, <2>1, <2>2, <2>3, <2>4, AttachKeeps
<1> QED BY <1>1, <1>2, <1>3, <1>4

LEMMA DiallingIInv ==
    ASSUME IInv, (\E y \in Reached : Dial(y)) \/ DialAttach \/ DialEnds
    PROVE  IInv'
<1> USE DEF IInv
<1>0. /\ NoSess \notin Sess /\ NoListener \notin Listener
      /\ Reached \subseteq Addr /\ NoAddr \notin Addr
  BY NoSessOutside, MuxAssumption DEF Addr
<1>1. ASSUME NEW y \in Reached, NEW s \in Sess, Created(s, NoListener, y), Dial(y),
             dialing' = At("attach", s)
      PROVE  IInv'
  <2>1. UNCHANGED <<sessions, recv, loop, in, closing, byAddr, start, inbound>>
    BY <1>1 DEF Dial, listening
  <2>2. /\ state[s] = "none" /\ state'[s] = "open" /\ key'[s] = y /\ ln'[s] = NoListener
        /\ \A t \in Sess : t # s => state'[t] = state[t] /\ key'[t] = key[t] /\ ln'[t] = ln[t]
        /\ loop[s] = "none"
    BY <1>1 DEF Created, TypeOK, Unborn
  <2>3. TypeOK'
    BY <1>0, <1>1, <2>1 DEF TypeOK, Created, At, Place
  <2>4. Listed'
    <3>1. SUFFICES ASSUME NEW m \in Listener, NEW x \in Heard, byAddr[m][x] # NoSess
                   PROVE  LET t == byAddr[m][x] IN
                          state'[t] = "open" /\ ln'[t] = m /\ key'[t] = x
      BY <2>1 DEF Listed
    <3>2. byAddr[m][x] \in Sess /\ state[byAddr[m][x]] = "open"
      BY <3>1 DEF Listed, TypeOK
    <3> QED BY <2>2, <3>1, <3>2 DEF Listed
  <2>5. Attached'
    BY <1>0, <2>1, <2>2 DEF Attached, TypeOK
  <2>6. Unborn'
    BY <2>1, <2>2 DEF Unborn
  <2>7. ASSUME NEW t, NEW m, Awaited(t, m) PROVE Awaited(t, m)'
    BY <2>1, <2>2, <2>7 DEF Awaited
  <2>8. Awaited(s, NoListener)' /\ dialing'.at = "attach" /\ dialing'.sess = s
    BY <1>0, <1>1, <2>1, <2>2 DEF Awaited, At
  <2>9. OnTheWay'
    BY <2>1, <2>7, <2>8 DEF OnTheWay
  <2>10. PeersAreRead'
    BY <2>1 DEF PeersAreRead
  <2> QED BY <2>3, <2>4, <2>5, <2>6, <2>9, <2>10
<1>2. CASE DialAttach
  <2>1. dialing.sess \in Sess /\ Awaited(dialing.sess, NoListener)
    BY <1>2 DEF DialAttach, OnTheWay, Awaited
  <2>2. /\ UNCHANGED <<key, ln, recv, start, inbound, in, closing>>
        /\ Attach(dialing.sess) /\ dialing.at = "attach"
        /\ dialing' = At("handshake", dialing.sess)
    BY <1>2 DEF DialAttach
  <2>3. dialing' \in Place /\ inbound' \in [Listener -> Sess \cup {NoSess}]
    BY <2>1, <2>2 DEF TypeOK, At, Place
  <2> QED BY <1>0, <2>1, <2>2, <2>3, AttachKeeps
<1>3. CASE DialEnds
  <2> DEFINE s == dialing.sess
  <2>1. /\ s \in Sess /\ ln[s] = NoListener
        /\ dialing' = At("idle", NoSess)
        /\ UNCHANGED <<sessions, key, ln, recv, loop, start, inbound, in, closing>>
        /\ (state' = state /\ byAddr' = byAddr) \/ CloseAll({s})
    BY <1>3 DEF DialEnds, OnTheWay
  <2>2. dialing' \in Place /\ dialing'.at = "idle"
    BY <2>1 DEF Place, At
  <2>3. CASE state' = state /\ byAddr' = byAddr
    BY <2>1, <2>2, <2>3
       DEF TypeOK, Listed, Attached, OnTheWay, Unborn, PeersAreRead, Awaited
  <2>4. CASE CloseAll({s})
    <3>1. {s} \in SUBSET Sess
      BY <2>1
    <3>2. /\ byAddr' \in [Listener -> [Heard -> Sess \cup {NoSess}]]
          /\ state' \in [Sess -> {"none", "open", "failed", "closed"}]
          /\ \A t \in Sess \ {s} : state'[t] = state[t]
          /\ \A t \in Sess : state[t] # "none" => state'[t] # "none"
          /\ \A m \in Listener : \A x \in Heard :
                byAddr'[m][x] # NoSess => /\ byAddr'[m][x] = byAddr[m][x]
                                         /\ byAddr[m][x] \notin {s}
      BY <2>4, <3>1, CloseAllKeeps
    <3>3. TypeOK'
      BY <2>1, <2>2, <3>2 DEF TypeOK
    <3>4. Listed'
      <4> HIDE DEF IInv, s
      <4> QED BY <2>1, <3>1, <3>2, ForgottenListed
    <3>5. Attached'
      BY <2>1 DEF Attached
    <3>6. Unborn'
      BY <1>3, <2>1, <3>2 DEF Unborn, OnTheWay, DialEnds
    <3>7. OnTheWay'
      BY <2>1, <2>2, <3>2 DEF OnTheWay, Awaited
    <3>8. PeersAreRead'
      BY <2>1, <3>2 DEF PeersAreRead
    <3> QED BY <3>3, <3>4, <3>5, <3>6, <3>7, <3>8
  <2> QED BY <2>1, <2>3, <2>4
<1> QED BY <1>1, <1>2, <1>3 DEF Dial

(* The reader goroutines, the network and Close.                            *)
LEMMA ReadingIInv ==
    ASSUME IInv, NEW s \in Sess,
           \/ Fails(s) \/ Arrives(s) \/ Recv(s) \/ Send(s) \/ LoopEnds(s) \/ Remove(s)
    PROVE  IInv'
<1> USE DEF IInv
<1>0. NoSess \notin Sess /\ NoListener \notin Listener
  BY NoSessOutside
<1>1. UNCHANGED <<key, ln, dialing, closing, byAddr, start, inbound>>
  BY DEF Fails, Arrives, Recv, Send, LoopEnds, Remove, listening
<1>2. TypeOK'
  BY MuxAssumption DEF TypeOK, Fails, Arrives, Recv, Send, LoopEnds, Remove, Removed, listening
<1>3. \A t \in Sess : /\ (state'[t] = "none") <=> (state[t] = "none")
                      /\ (loop'[t] = "none") <=> (loop[t] = "none")
                      /\ state'[t] = state[t] \/ ln[t] = NoListener
  BY DEF TypeOK, Fails, Arrives, Recv, Send, LoopEnds, Remove
<1>4. \A x \in Addr : sessions'[x] # NoSess => sessions'[x] = sessions[x]
  BY DEF TypeOK, Fails, Arrives, Recv, Send, LoopEnds, Remove, Removed
<1>5. Listed'
  BY <1>0, <1>1, <1>3 DEF Listed, TypeOK
<1>6. Attached' /\ Unborn'
  BY <1>1, <1>3, <1>4 DEF Attached, Unborn, TypeOK
<1>7. OnTheWay'
  BY <1>1, <1>3 DEF OnTheWay, Awaited
<1>8. PeersAreRead'
  <2>1. SUFFICES ASSUME closing = "open", NEW m \in Listener, NEW x \in Heard,
                        byAddr[m][x] # NoSess, sessions[x] = byAddr[m][x],
                        loop[byAddr[m][x]] \in {"recv", "send"}
                 PROVE  /\ sessions'[x] = byAddr[m][x]
                        /\ loop'[byAddr[m][x]] \in {"recv", "send"}
    BY <1>1 DEF PeersAreRead
  <2>2. byAddr[m][x] \in Sess /\ state[byAddr[m][x]] = "open" /\ x \in Addr
    BY <2>1 DEF Listed, TypeOK, Addr
  <2>3. loop'[byAddr[m][x]] \in {"recv", "send"}
    BY <2>1, <2>2 DEF TypeOK, Fails, Arrives, Recv, Send, LoopEnds, Closed, Remove
  <2>4. sessions'[x] = byAddr[m][x]
    BY <2>1, <2>2 DEF TypeOK, Fails, Arrives, Recv, Send, LoopEnds, Remove, Removed
  <2> QED BY <2>3, <2>4
<1> QED BY <1>2, <1>5, <1>6, <1>7, <1>8

LEMMA ClosingIInv ==
    ASSUME IInv, ReadFrom \/ Cancel \/ CloseChan \/ Close
    PROVE  IInv'
<1> USE DEF IInv
<1>1. CASE ReadFrom
  <2>1. in' \in 0 .. InCap
    BY <1>1, MuxAssumption DEF ReadFrom, TypeOK
  <2> QED BY <1>1, <2>1 DEF ReadFrom, listening, TypeOK, Listed, Attached, OnTheWay,
             Unborn, PeersAreRead, Awaited
<1>2. CASE Cancel \/ CloseChan
  BY <1>2 DEF Cancel, CloseChan, listening, TypeOK, Listed, Attached, OnTheWay,
     Unborn, PeersAreRead, Awaited
<1>3. CASE Close
  <2> DEFINE S == {sessions[x] : x \in Addr} \ {NoSess}
  <2>1. S \in SUBSET Sess
    BY DEF TypeOK
  <2>2. /\ CloseAll(S) /\ sessions' = [x \in Addr |-> NoSess]
        /\ closing' = "done"
        /\ UNCHANGED <<key, ln, recv, loop, start, inbound, dialing, in>>
    BY <1>3 DEF Close
  <2>3. /\ byAddr' \in [Listener -> [Heard -> Sess \cup {NoSess}]]
        /\ state' \in [Sess -> {"none", "open", "failed", "closed"}]
        /\ \A t \in Sess \ S : state'[t] = state[t]
        /\ \A t \in Sess : state[t] # "none" => state'[t] # "none"
        /\ \A m \in Listener : \A x \in Heard :
              byAddr'[m][x] # NoSess => /\ byAddr'[m][x] = byAddr[m][x]
                                       /\ byAddr[m][x] \notin S
    BY <2>1, <2>2, CloseAllKeeps
  <2>4. TypeOK'
    BY <2>2, <2>3 DEF TypeOK
  <2>5. Listed'
    <3>1. UNCHANGED <<key, ln>>
      BY <2>2
    <3> HIDE DEF IInv, S
    <3> QED BY <2>1, <2>3, <3>1, ForgottenListed
  <2>6. Attached'
    BY <2>2 DEF Attached
  <2>7. \A t \in S : loop[t] # "none"
    BY DEF Attached
  <2>8. Unborn'
    <3>1. ASSUME NEW t \in Sess, state'[t] = "none" PROVE state[t] = "none"
      BY <2>3, <3>1
    <3> QED BY <2>2, <3>1 DEF Unborn
  <2>9. OnTheWay'
    BY <2>2, <2>3 DEF OnTheWay, Awaited
  <2>10. PeersAreRead'
    BY <2>2 DEF PeersAreRead
  <2> QED BY <2>4, <2>5, <2>6, <2>8, <2>9, <2>10
<1> QED BY <1>1, <1>2, <1>3

(* The invariant is inductive.                                              *)
THEOREM Inductive == Spec => []IInv
<1>1. IInv /\ [Next]_vars => IInv'
  <2> SUFFICES ASSUME IInv, [Next]_vars PROVE IInv'
    OBVIOUS
  <2>1. CASE UNCHANGED vars
    BY <2>1 DEF vars, listening, IInv, TypeOK, Listed, Attached, OnTheWay, Unborn,
       PeersAreRead, Awaited
  <2>2. CASE Next
    BY <2>2, DatagramIInv, ListeningIInv, DiallingIInv, ReadingIInv, ClosingIInv
       DEF Next, Starting, ReadLoop
  <2> QED BY <2>1, <2>2
<1> QED BY InitIInv, <1>1, PTL DEF Spec

(* Buffers keep within their capacities and every variable in its range,    *)
(* for any number of listeners and sessions.                                *)
THEOREM TypeCorrect == Spec => []TypeOK
<1>1. IInv => TypeOK
  BY DEF IInv
<1> QED BY Inductive, <1>1, PTL

(* While the node is open a listener never puts a peer's datagrams into a   *)
(* session that nobody reads, however many listeners hear from one address. *)
THEOREM NobodyCutOff == Spec => []PeersAreRead
<1>1. IInv => PeersAreRead
  BY DEF IInv
<1> QED BY Inductive, <1>1, PTL

===============================================================================

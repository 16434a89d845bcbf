-------------------------- MODULE ComponentProofs ---------------------------
(***************************************************************************)
(* The theorems about the parts that stand beside the socket layer:        *)
(* SocketAddr for every word and any number of addresses, the way of an    *)
(* event through _socket.event and _event for any number of sockets and    *)
(* events and any depth of interrupts, and the handshake of the host       *)
(* scripts with the device for any ports.                                  *)
(***************************************************************************)
EXTENDS SocketAddr, EventSlot, HostTest, SequenceTheorems, TLAPS

-----------------------------------------------------------------------------
(***************************************************************************)
(* Part 1.  SocketAddr: setting, copying, printing and reading back agree. *)
(***************************************************************************)

\* An address prints as text does.
PrintsAs(a, text) == text = IF text.af = "INET4" THEN Printed4(a) ELSE Printed6(a)

(* A text is of one of the two families, with its words.                   *)
LEMMA TextFields ==
  ASSUME NEW text \in Text
  PROVE  \/ /\ text.af = "INET4" /\ text.words \in [0..0 -> Word]
            /\ text = [af |-> "INET4", words |-> text.words]
         \/ /\ text.af = "INET6" /\ text.words \in Address
            /\ text = [af |-> "INET6", words |-> text.words]
BY Zenon DEF Text

(* inet_pton stores an address, which prints as the text it was read from, *)
(* an IPv4 address if it is stored in the mapped range.                    *)
LEMMA ParsedPrints ==
  ASSUME NEW a \in Address, NEW text \in Text
  PROVE  /\ Parsed(a, text) \in Address
         /\ Kept(text.af) => PrintsAs(Parsed(a, text), text)
<1>1. CASE text.af = "INET6"
  BY Zenon, <1>1, TextFields DEF Parsed, PrintsAs, Printed6
<1>2. CASE text.af = "INET4" /\ ~maps
  <2>1. text.words[0] \in Word BY <1>2, TextFields
  <2>2. Parsed(a, text) = [a EXCEPT ![0] = text.words[0]] BY Zenon, <1>2 DEF Parsed
  <2>3. ~Kept(text.af) BY Zenon, <1>2 DEF Kept
  <2> QED BY Zenon, <2>1, <2>2, <2>3 DEF Address
<1>3. CASE text.af = "INET4" /\ maps
  <2>1. text.words \in [0..0 -> Word] /\ text = [af |-> "INET4", words |-> text.words]
    BY Zenon, <1>3, TextFields
  <2>2. Parsed(a, text) = [w \in 0..3 |-> IF w = 3 THEN text.words[0]
                                        ELSE IF w = 2 THEN FFFF ELSE 0]
    BY Zenon, <1>3 DEF Parsed
  <2>3. Parsed(a, text) \in Address BY <2>1, <2>2, AddrAssumption DEF Address
  <2>4. IsV4(Parsed(a, text)) /\ Parsed(a, text)[3] = text.words[0] BY <2>2 DEF IsV4
  <2>5. [w \in 0..0 |-> text.words[0]] = text.words BY <2>1
  <2> QED BY Zenon, <1>3, <2>1, <2>3, <2>4, <2>5 DEF PrintsAs, Printed4
<1> QED BY Zenon, <1>1, <1>2, <1>3, TextFields

(* What is printed is a text of its family, or nothing for an address that *)
(* is not IPv4.                                                            *)
LEMMA PrintedText ==
  ASSUME NEW a \in Address
  PROVE  /\ Printed4(a) \in Text \cup {JUNK}
         /\ Printed6(a) \in Text
         /\ Printed4(a) # JUNK =>
              IsV4(a) /\ Printed4(a).af = "INET4" /\ Printed4(a).words = [w \in 0..0 |-> a[3]]
         /\ Printed6(a).af = "INET6" /\ Printed6(a).words = a
<1>1. a[3] \in Word BY DEF Address
<1> QED BY Zenon, <1>1 DEF Printed4, Printed6, Text

(* The address comes back from the text printed from it.                   *)
LEMMA PrintedParses ==
  ASSUME NEW a \in Address, NEW b \in Address,
         NEW text \in {Printed4(a), Printed6(a)}, text # JUNK, Kept(text.af)
  PROVE  Pton(text.af, text) = 1 /\ Parsed(b, text) = a
<1>1. text.af \in {"INET4", "INET6"} /\ text.af # "UNINIT" BY PrintedText
<1>2. Pton(text.af, text) = 1
  <2>1. \A af : af # "UNINIT" => Pton(af, text) = IF text.af = af THEN 1 ELSE 0 BY Zenon DEF Pton
  <2> QED BY Zenon, <1>1, <2>1
<1>3. CASE text = Printed6(a)
  <2>1. text.af = "INET6" /\ text.words = a BY Zenon, <1>3, PrintedText
  <2> QED BY Zenon, <1>2, <2>1 DEF Parsed
<1>4. CASE text = Printed4(a)
  <2>0. IsV4(a) /\ text.af = "INET4" /\ text.words = [w \in 0..0 |-> a[3]]
    BY Zenon, <1>4, PrintedText
  <2>1. text.words[0] = a[3] BY <2>0
  <2>2. Parsed(b, text) = [w \in 0..3 |-> IF w = 3 THEN a[3] ELSE IF w = 2 THEN FFFF ELSE 0]
    BY Zenon, <2>0, <2>1 DEF Parsed, Kept
  <2>3. \A w \in 0..3 : a[w] = IF w = 3 THEN a[3] ELSE IF w = 2 THEN FFFF ELSE 0
    BY <2>0 DEF IsV4
  <2>4. a \in [0..3 -> Word] /\ DOMAIN Parsed(b, text) = 0..3 BY Zenon, <2>2 DEF Address
  <2>5. Parsed(b, text) = [w \in 0..3 |-> Parsed(b, text)[w]] BY Zenon, <2>2
  <2>6. \A w \in 0..3 : Parsed(b, text)[w] = a[w] BY Zenon, <2>2, <2>3
  <2> QED BY Zenon, <1>2, <2>4, <2>5, <2>6
<1> QED BY Zenon, <1>2, <1>3, <1>4

-----------------------------------------------------------------------------
AddrInv == AddrTypeOK /\ PrintsAsSet

(* Every call keeps the types, and every address prints as it was set.     *)
LEMMA AddrStep ==
  ASSUME AddrInv, [AddrNext]_addrVars
  PROVE  AddrInv'
<1> USE DEF AddrInv, AddrTypeOK
<1>m. UNCHANGED maps BY Zenon DEF AddrNext, addrVars
<1>0. PrintsAsSet <=>
        \A x \in Name : set[x] # JUNK /\ Kept(set[x].af) => PrintsAs(addr[x], set[x])
  BY Zenon DEF PrintsAsSet, PrintsAs
<1>1. PrintsAsSet' <=>
        \A x \in Name : set'[x] # JUNK /\ Kept(set'[x].af) => PrintsAs(addr'[x], set'[x])
  BY Zenon, <1>m DEF PrintsAsSet, PrintsAs, Kept
<1>2. CASE UNCHANGED addrVars BY Zenon, <1>0, <1>1, <1>2 DEF addrVars
<1>3. ASSUME NEW x \in Name, NEW a \in Address, SetStruct(x, a) PROVE AddrInv'
  BY Zenon, <1>0, <1>1, <1>3, <1>m DEF SetStruct
<1>4. ASSUME NEW x \in Name, NEW y \in Name, SetCopy(x, y) PROVE AddrInv'
  BY Zenon, <1>0, <1>1, <1>4, <1>m DEF SetCopy
<1>5. ASSUME NEW x \in Name, NEW af \in Family, NEW text \in {buf} \cup Text,
             SetText(x, af, text)
      PROVE  AddrInv'
  <2>0. Pton(af, text) \in {1, 0, -1} BY Zenon DEF Pton
  <2>1. PICK code \in {Pton(af, text), -2} :
          /\ rc' = CASE code = 1  -> "NONE"
                     [] code = 0  -> "BAD_ADDRESS"
                     [] code = -1 -> "BAD_ARGUMENT"
                     [] code = -2 -> "UNKNOWN"
          /\ IF code = 1
             THEN /\ addr' = [addr EXCEPT ![x] = Parsed(@, text)]
                  /\ set' = [set EXCEPT ![x] = text]
             ELSE UNCHANGED <<addr, set>>
          /\ UNCHANGED buf
    BY Zenon, <1>5 DEF SetText
  <2>4. rc' \in {"NONE", "BAD_ADDRESS", "BAD_ARGUMENT", "UNKNOWN"}
    <3>1. code \in {1, 0, -1, -2} BY Zenon, <2>0
    <3> QED BY Zenon, <2>1, <3>1
  <2>2. CASE code # 1 BY Zenon, <1>0, <1>1, <1>m, <2>1, <2>2, <2>4
  <2>3. CASE code = 1
    <3>0. Pton(af, text) = 1 BY <2>3
    <3>1. text \in Text BY <3>0 DEF Pton
    <3>2. /\ Parsed(addr[x], text) \in Address
          /\ Kept(text.af) => PrintsAs(Parsed(addr[x], text), text)
      BY Zenon, <3>1, ParsedPrints
    <3>3. /\ addr' = [addr EXCEPT ![x] = Parsed(addr[x], text)]
          /\ set' = [set EXCEPT ![x] = text]
      BY Zenon, <2>1, <2>3
    <3>4. AddrTypeOK' BY Zenon, <1>m, <2>1, <2>4, <3>1, <3>2, <3>3
    <3>5. PrintsAsSet' BY Zenon, <1>0, <1>1, <3>2, <3>3
    <3> QED BY Zenon, <3>4, <3>5
  <2> QED BY Zenon, <2>2, <2>3
<1>6. ASSUME NEW x \in Name, NEW room \in BOOLEAN, FmtIPv4(x, room) \/ FmtIPv6(x, room)
      PROVE  AddrInv'
  <2>1. PICK text \in Text \cup {JUNK} : Format(text, room)
    BY Zenon, <1>6, PrintedText DEF FmtIPv4, FmtIPv6
  <2>2. AddrTypeOK' BY Zenon, <1>m, <2>1 DEF Format
  <2>3. PrintsAsSet' BY Zenon, <1>0, <1>1, <2>1 DEF Format
  <2> QED BY Zenon, <2>2, <2>3
<1> QED BY Zenon, <1>2, <1>3, <1>4, <1>5, <1>6 DEF AddrNext

(* Types and PrintsAsSet, always.                                          *)
LEMMA AddrInvariant == AddrSpec => []AddrInv
<1>1. AddrInit => AddrInv
  BY Zenon DEF AddrInit, AddrInv, AddrTypeOK, PrintsAsSet
<1>2. AddrInv /\ [AddrNext]_addrVars => AddrInv' BY Zenon, AddrStep
<1> QED BY <1>1, <1>2, PTL DEF AddrSpec

(* setAddr, fmtIPv4, fmtIPv6: whatever the words, an address set from a    *)
(* text, or copied from one that was, prints as that text; for IPv4 where  *)
(* inet_pton maps.                                                         *)
THEOREM AddressesPrint == AddrSpec => []PrintsAsSet
<1>1. AddrInv => PrintsAsSet BY Zenon DEF AddrInv
<1> QED BY <1>1, AddrInvariant, PTL

(* fmtIPv4, fmtIPv6, setAddr: whatever the words, uninitialised ones too,  *)
(* the printed text is accepted and gives the same address back, on the    *)
(* same condition.                                                         *)
THEOREM AddressesReadBack == AddrSpec => []ReadsBack
<1>1. AddrInv => ReadsBack BY Zenon, PrintedParses DEF AddrInv, AddrTypeOK, ReadsBack
<1> QED BY <1>1, AddrInvariant, PTL

-----------------------------------------------------------------------------
(***************************************************************************)
(* Part 2.  EventSlot: a socket is told of the events raised for it.       *)
(***************************************************************************)

(* The stack of interrupts.                                                *)

(* Where an interrupt is in progress, the innermost is one of the frames.  *)
LEMMA TopFrame ==
  ASSUME frames \in Seq(Frame), frames # <<>>
  PROVE  /\ Len(frames) \in Nat \ {0}
         /\ Len(frames) \in 1..Len(frames)
         /\ Top \in Frame
BY DEF Top

(* The innermost interrupt goes on, the frames below stay.                 *)
LEMMA GotoFrames ==
  ASSUME frames \in Seq(Frame), frames # <<>>, NEW pc \in Pc, Goto(pc)
  PROVE  /\ frames' \in Seq(Frame)
         /\ Len(frames') = Len(frames)
         /\ \A k \in 1..Len(frames) :
              /\ frames'[k].sock = frames[k].sock
              /\ frames'[k].ev = frames[k].ev
              /\ k # Len(frames) => frames'[k] = frames[k]
         /\ frames'[Len(frames)].pc = pc
<1>1. Len(frames) \in 1..Len(frames) /\ Top \in Frame BY Zenon, TopFrame
<1>2. [Top EXCEPT !.pc = pc] \in Frame BY Zenon, <1>1 DEF Frame
<1>3. frames' = [frames EXCEPT ![Len(frames)] = [Top EXCEPT !.pc = pc]] BY Zenon DEF Goto, Top
<1>4. frames' \in Seq(Frame) /\ Len(frames') = Len(frames) BY <1>1, <1>2, <1>3
<1>5. \A k \in 1..Len(frames) :
        frames'[k] = IF k = Len(frames) THEN [Top EXCEPT !.pc = pc] ELSE frames[k]
  BY <1>1, <1>3
<1>6. Top = frames[Len(frames)] BY Zenon DEF Top
<1>7. /\ [Top EXCEPT !.pc = pc].sock = Top.sock
      /\ [Top EXCEPT !.pc = pc].ev = Top.ev
      /\ [Top EXCEPT !.pc = pc].pc = pc
  BY Zenon, <1>1 DEF Frame
<1> QED BY Zenon, <1>1, <1>4, <1>5, <1>6, <1>7

(* An interrupt is taken: one more frame.                                  *)
LEMMA PushFrames ==
  ASSUME frames \in Seq(Frame), NEW s \in Sock, NEW e \in Event,
         frames' = Append(frames, [sock |-> s, ev |-> e, pc |-> "copy"])
  PROVE  /\ frames' \in Seq(Frame)
         /\ Len(frames') = Len(frames) + 1
         /\ \A k \in 1..Len(frames) : frames'[k] = frames[k]
         /\ frames'[Len(frames) + 1] = [sock |-> s, ev |-> e, pc |-> "copy"]
<1>1. [sock |-> s, ev |-> e, pc |-> "copy"] \in Frame BY Zenon DEF Frame, Pc
<1> QED BY <1>1

(* An interrupt returns: the innermost frame goes.                         *)
LEMMA PopFrames ==
  ASSUME frames \in Seq(Frame), frames # <<>>,
         frames' = SubSeq(frames, 1, Len(frames) - 1)
  PROVE  /\ frames' \in Seq(Frame)
         /\ Len(frames') = Len(frames) - 1
         /\ \A k \in 1..Len(frames') : frames'[k] = frames[k] /\ k \in 1..Len(frames)
<1> DEFINE n == Len(frames) - 1
<1>1. n \in Nat /\ 1 \in Int /\ n \in Int BY TopFrame
<1>2. \A k \in 1..n : frames[k] \in Frame /\ k \in 1..Len(frames) BY <1>1
<1>3. /\ SubSeq(frames, 1, n) \in Seq(Frame)
      /\ Len(SubSeq(frames, 1, n)) = IF 1 <= n THEN n - 1 + 1 ELSE 0
      /\ \A k \in 1..(n - 1 + 1) : SubSeq(frames, 1, n)[k] = frames[1 + k - 1]
  <2> HIDE DEF n
  <2> QED BY <1>1, <1>2, SubSeqProperties
<1>0. frames' = SubSeq(frames, 1, n) BY Zenon
<1>4. Len(frames') = n
  <2> HIDE DEF n
  <2>1. n = IF 1 <= n THEN n - 1 + 1 ELSE 0 BY <1>1
  <2> QED BY Zenon, <1>0, <1>3, <2>1
<1>5. \A k \in 1..n : frames'[k] = frames[k]
  <2> HIDE DEF n
  <2>1. \A k \in 1..n : k \in 1..(n - 1 + 1) /\ 1 + k - 1 = k BY <1>1
  <2> QED BY Zenon, <1>0, <1>3, <2>1
<1> QED BY Zenon, <1>2, <1>3, <1>4, <1>5

-----------------------------------------------------------------------------
(* One lemma per statement.                                                *)

(* The stack raises an event for a socket, over whatever else is going on. *)
LEMMA InterruptStep ==
  ASSUME SlotInv, NEW s \in Sock, NEW e \in Event, Interrupt(s, e)
  PROVE  SlotInv'
<1> USE DEF SlotInv
<1>0. /\ frames \in Seq(Frame) /\ socketEvent \in [Sock -> Event \cup {NULL}]
      /\ Len(frames) \in Nat
  BY DEF SlotTypeOK
<1>1. /\ e \in pending /\ pending' = pending \ {e}
      /\ Busy(s) => s \in Reentrant
      /\ socketEvent' = [socketEvent EXCEPT ![s] = e]
      /\ UNCHANGED <<event, handled>>
  BY Zenon DEF Interrupt
<1>2. /\ frames' \in Seq(Frame)
      /\ Len(frames') = Len(frames) + 1
      /\ \A k \in 1..Len(frames) : frames'[k] = frames[k]
      /\ frames'[Len(frames) + 1] = [sock |-> s, ev |-> e, pc |-> "copy"]
  BY Zenon, <1>0, PushFrames DEF Interrupt
<1>3. \A k \in 1..Len(frames') : k \in 1..Len(frames) \/ k = Len(frames) + 1
  BY <1>0, <1>2
<1>4. SlotTypeOK' BY Zenon, <1>1, <1>2 DEF SlotTypeOK
<1>8. FieldsOfFrame'
  <2> SUFFICES ASSUME NEW k \in 1..Len(frames'), frames'[k].sock \notin Reentrant
               PROVE  /\ \A j \in 1..Len(frames') : frames'[j].sock = frames'[k].sock => j = k
                      /\ socketEvent'[frames'[k].sock] = frames'[k].ev
                      /\ frames'[k].pc = "call" => event'[frames'[k].sock] = frames'[k].ev
    BY Zenon DEF FieldsOfFrame
  <2>1. s \notin Reentrant => \A j \in 1..Len(frames) : frames[j].sock # s BY Zenon, <1>1 DEF Busy
  <2>2. CASE k = Len(frames) + 1 BY <1>0, <1>1, <1>2, <1>3, <2>1, <2>2
  <2>3. CASE k \in 1..Len(frames)
    <3>1. frames'[k] = frames[k] /\ frames[k].sock # s BY Zenon, <1>2, <2>1, <2>3
    <3>2. socketEvent'[frames[k].sock] = socketEvent[frames[k].sock]
      BY <1>0, <1>1, <2>3, <3>1 DEF Frame
    <3>3. \A j \in 1..Len(frames') : frames'[j].sock = frames[k].sock => j = k
      <4> SUFFICES ASSUME NEW j \in 1..Len(frames'), frames'[j].sock = frames[k].sock
                   PROVE  j = k
        BY Zenon
      <4>1. frames[k].sock \notin Reentrant BY Zenon, <3>1
      <4>2. CASE j \in 1..Len(frames)
        <5>1. frames[j].sock = frames[k].sock BY Zenon, <1>2, <4>2
        <5> QED BY Zenon, <2>3, <4>1, <4>2, <5>1 DEF FieldsOfFrame
      <4>3. CASE j = Len(frames) + 1
        <5>1. frames'[j].sock = s BY <1>2, <4>3
        <5> QED BY Zenon, <3>1, <5>1
      <4> QED BY Zenon, <1>3, <4>2, <4>3
    <3> QED BY Zenon, <1>1, <2>3, <3>1, <3>2, <3>3 DEF FieldsOfFrame
  <2> QED BY Zenon, <1>3, <2>2, <2>3
<1>9. ToldAsRaised' BY Zenon, <1>1 DEF ToldAsRaised
<1> QED BY Zenon, <1>4, <1>8, <1>9

(* _event = _socket.event.                                                 *)
LEMMA CopyStep ==
  ASSUME SlotInv, CopyEvent
  PROVE  SlotInv'
<1> USE DEF SlotInv
<1>0. /\ frames \in Seq(Frame) /\ frames # <<>>
      /\ socketEvent \in [Sock -> Event \cup {NULL}] /\ event \in [Sock -> Event \cup {NULL}]
  BY Zenon DEF SlotTypeOK, CopyEvent, At
<1>1. PICK s \in Sock, n \in 1..Len(frames) :
        s = Top.sock /\ n = Len(frames) /\ Top = frames[n]
  BY Zenon, <1>0, TopFrame DEF Frame, Top
<1>2. /\ event' = [event EXCEPT ![s] = socketEvent[s]]
      /\ UNCHANGED <<socketEvent, pending, handled>>
  BY Zenon, <1>1 DEF CopyEvent
<1>3. /\ frames' \in Seq(Frame)
      /\ Len(frames') = Len(frames)
      /\ \A k \in 1..Len(frames) :
           /\ frames'[k].sock = frames[k].sock
           /\ frames'[k].ev = frames[k].ev
           /\ k # n => frames'[k] = frames[k]
  BY Zenon, <1>0, <1>1, GotoFrames DEF CopyEvent, Pc
<1>4. SlotTypeOK' BY Zenon, <1>0, <1>2, <1>3 DEF SlotTypeOK
<1>7. FieldsOfFrame'
  <2> SUFFICES ASSUME NEW k \in 1..Len(frames), frames'[k].sock \notin Reentrant
               PROVE  /\ \A j \in 1..Len(frames) : frames'[j].sock = frames'[k].sock => j = k
                      /\ socketEvent'[frames'[k].sock] = frames'[k].ev
                      /\ frames'[k].pc = "call" => event'[frames'[k].sock] = frames'[k].ev
    BY Zenon, <1>3 DEF FieldsOfFrame
  <2>1. /\ \A j \in 1..Len(frames) : frames[j].sock = frames[k].sock => j = k
        /\ socketEvent[frames[k].sock] = frames[k].ev
        /\ frames[k].pc = "call" => event[frames[k].sock] = frames[k].ev
    BY Zenon, <1>3 DEF FieldsOfFrame
  <2>2. CASE k = n BY Zenon, <1>0, <1>1, <1>2, <1>3, <2>1, <2>2
  <2>3. CASE k # n
    <3>1. frames[k].sock # s BY Zenon, <1>1, <2>1, <2>3
    <3>2. event'[frames[k].sock] = event[frames[k].sock] BY <1>0, <1>2, <3>1 DEF Frame
    <3> QED BY Zenon, <1>2, <1>3, <2>1, <2>3, <3>2
  <2> QED BY Zenon, <2>2, <2>3
<1>8. ToldAsRaised' BY Zenon, <1>2 DEF ToldAsRaised
<1> QED BY Zenon, <1>4, <1>7, <1>8

(* _eventHandler is called with _event.                                    *)
LEMMA CallStep ==
  ASSUME SlotInv, CallHandler
  PROVE  SlotInv'
<1> USE DEF SlotInv
<1>0. /\ frames \in Seq(Frame) /\ frames # <<>> /\ event \in [Sock -> Event \cup {NULL}]
      /\ handled \subseteq Report
  BY Zenon DEF SlotTypeOK, CallHandler, At
<1>1. PICK n \in 1..Len(frames) : n = Len(frames) /\ Top = frames[n] /\ Top \in Frame
  BY Zenon, <1>0, TopFrame DEF Top
<1>2. PICK r \in Report : r = [sock |-> Top.sock, raised |-> Top.ev, told |-> event[Top.sock]]
  BY Zenon, <1>0, <1>1 DEF Report, Frame
<1>3. /\ handled' = handled \cup {r} /\ Top.pc = "call"
      /\ UNCHANGED <<socketEvent, event, pending>>
  BY Zenon, <1>2 DEF CallHandler, At
<1>4. /\ frames' \in Seq(Frame)
      /\ Len(frames') = Len(frames)
      /\ \A k \in 1..Len(frames) :
           /\ frames'[k].sock = frames[k].sock
           /\ frames'[k].ev = frames[k].ev
           /\ k # n => frames'[k] = frames[k]
      /\ frames'[n].pc = "clear"
  BY Zenon, <1>0, <1>1, GotoFrames DEF CallHandler, Pc
<1>5. SlotTypeOK' BY Zenon, <1>0, <1>3, <1>4 DEF SlotTypeOK
<1>6. r.sock = Top.sock /\ r.raised = Top.ev /\ r.told = event[Top.sock] BY Zenon, <1>2
<1>9. FieldsOfFrame' BY <1>3, <1>4 DEF FieldsOfFrame
<1>10. ToldAsRaised' BY Zenon, <1>1, <1>3, <1>6 DEF ToldAsRaised, FieldsOfFrame
<1> QED BY Zenon, <1>5, <1>9, <1>10

(* _event = NULL, and the interrupt returns.                               *)
LEMMA ClearStep ==
  ASSUME SlotInv, ClearEvent
  PROVE  SlotInv'
<1> USE DEF SlotInv
<1>0. /\ frames \in Seq(Frame) /\ frames # <<>> /\ event \in [Sock -> Event \cup {NULL}]
  BY Zenon DEF SlotTypeOK, ClearEvent, At
<1>1. PICK s \in Sock, n \in 1..Len(frames) :
        s = Top.sock /\ n = Len(frames) /\ Top = frames[n]
  BY Zenon, <1>0, TopFrame DEF Frame, Top
<1>2. /\ event' = [event EXCEPT ![s] = NULL]
      /\ UNCHANGED <<socketEvent, pending, handled>>
  BY Zenon, <1>1 DEF ClearEvent
<1>3. /\ frames' \in Seq(Frame)
      /\ \A k \in 1..Len(frames') : frames'[k] = frames[k] /\ k \in 1..Len(frames) /\ k # n
  BY <1>0, <1>1, PopFrames DEF ClearEvent
<1>4. SlotTypeOK' BY Zenon, <1>0, <1>2, <1>3 DEF SlotTypeOK
<1>7. FieldsOfFrame'
  <2> SUFFICES ASSUME NEW k \in 1..Len(frames'), frames'[k].sock \notin Reentrant
               PROVE  /\ \A j \in 1..Len(frames') : frames'[j].sock = frames'[k].sock => j = k
                      /\ socketEvent'[frames'[k].sock] = frames'[k].ev
                      /\ frames'[k].pc = "call" => event'[frames'[k].sock] = frames'[k].ev
    BY Zenon DEF FieldsOfFrame
  <2>1. /\ \A j \in 1..Len(frames) : frames[j].sock = frames[k].sock => j = k
        /\ socketEvent[frames[k].sock] = frames[k].ev
        /\ frames[k].pc = "call" => event[frames[k].sock] = frames[k].ev
    BY Zenon, <1>3 DEF FieldsOfFrame
  <2>2. frames[k].sock # s BY Zenon, <1>1, <1>3, <2>1
  <2>3. event'[frames[k].sock] = event[frames[k].sock] BY <1>0, <1>2, <1>3, <2>2 DEF Frame
  <2> QED BY Zenon, <1>2, <1>3, <2>1, <2>3
<1>8. ToldAsRaised' BY Zenon, <1>2 DEF ToldAsRaised
<1> QED BY Zenon, <1>4, <1>7, <1>8

-----------------------------------------------------------------------------
(* The inductive invariant holds.                                          *)
LEMMA SlotInvariant == SlotSpec => []SlotInv
<1>1. SlotInit => SlotInv
  <2> SUFFICES ASSUME SlotInit PROVE SlotInv
    BY Zenon
  <2> USE DEF SlotInit
  <2>1. SlotTypeOK BY DEF SlotTypeOK
  <2>2. FieldsOfFrame /\ ToldAsRaised BY DEF FieldsOfFrame, ToldAsRaised
  <2> QED BY Zenon, <2>1, <2>2 DEF SlotInv
<1>2. SlotInv /\ [SlotNext]_slotVars => SlotInv'
  <2> SUFFICES ASSUME SlotInv, [SlotNext]_slotVars PROVE SlotInv'
    BY Zenon
  <2>1. CASE UNCHANGED slotVars
    BY <2>1 DEF slotVars, SlotInv, SlotTypeOK, FieldsOfFrame, ToldAsRaised
  <2> QED BY Zenon, <2>1, InterruptStep, CopyStep, CallStep, ClearStep DEF SlotNext
<1> QED BY <1>1, <1>2, PTL DEF SlotSpec

(* _nvEventHandler: for a socket that the stack does not interrupt itself  *)
(* for, _eventHandler is told of the event that was raised, however deep   *)
(* the interrupts of other sockets nest.                                   *)
THEOREM ToldAlways == SlotSpec => []ToldAsRaised
<1>1. SlotInv => ToldAsRaised BY Zenon DEF SlotInv
<1> QED BY <1>1, SlotInvariant, PTL

-----------------------------------------------------------------------------
(* Part 3, HostTest: the device and the host agree on where the server is. *)

(* What the line looks like when a message is sent or taken.               *)
LEMMA LineMoves ==
  ASSUME NEW x, NEW y
  PROVE  /\ Append(<<>>, x) = <<x>> /\ Append(<<x>>, y) = <<x, y>>
         /\ Head(<<x>>) = x /\ Head(<<x, y>>) = x
         /\ Tail(<<x>>) = <<>> /\ Tail(<<x, y>>) = <<y>>
<1> DEFINE s == Append(<<x>>, y)
           t == <<x, y>>
<1>1. <<x>> \in Seq({x, y}) /\ Len(<<x>>) = 1 /\ <<x>>[1] = x OBVIOUS
<1>2. s \in Seq({x, y}) /\ Len(s) = 2 /\ s[1] = x /\ s[2] = y BY <1>1, AppendProperties
<1>3. t \in Seq({x, y}) /\ Len(t) = 2 /\ t[1] = x /\ t[2] = y OBVIOUS
<1>4. s = t
  <2> HIDE DEF s, t
  <2>1. \A k \in 1..2 : s[k] = t[k] BY <1>2, <1>3
  <2> QED BY Zenon, <1>2, <1>3, <2>1, SeqEqual
<1>5. /\ Append(<<>>, x) = <<x>> /\ Head(<<x>>) = x /\ Head(<<x, y>>) = x
      /\ Tail(<<x>>) = <<>> /\ Tail(<<x, y>>) = <<y>>
  OBVIOUS
<1> QED BY Zenon, <1>4, <1>5

(* The device sends, or takes the answer it has waited for.                *)
LEMMA DeviceStep ==
  ASSUME HandshakeInv, Device
  PROVE  HandshakeInv'
<1>0. told = [ip |-> told.ip, port |-> told.port] BY Zenon DEF HandshakeInv
<1>1. CASE SendKv("start", "target_ip", "addressed")
  <2>1. Line(<<>>, <<>>) BY Zenon, <1>1 DEF SendKv, HandshakeInv
  <2>2. device' = "addressed" /\ Line(<<"target_ip">>, <<>>)' /\ UNCHANGED told
    BY Zenon, <1>1, <2>1, LineMoves DEF SendKv, Line
  <2> QED BY Zenon, <1>0, <2>2 DEF HandshakeInv
<1>2. CASE SendKv("addressed", "host_ip", "awaits ip")
  <2>1. device' = "awaits ip" /\ UNCHANGED <<told, hostVars>> BY Zenon, <1>2 DEF SendKv
  <2>2. \/ Line(<<"target_ip">>, <<>>)
        \/ ServerUp /\ Line(<<>>, <<>>)
    BY Zenon, <1>2 DEF SendKv, HandshakeInv
  <2>3. \/ Line(<<"target_ip", "host_ip">>, <<>>)'
        \/ ServerUp /\ Line(<<"host_ip">>, <<>>)'
    <3>1. CASE Line(<<"target_ip">>, <<>>)
      <4>1. Line(<<"target_ip", "host_ip">>, <<>>)' BY Zenon, <1>2, <3>1, LineMoves DEF SendKv, Line
      <4> QED BY Zenon, <4>1
    <3>2. CASE ServerUp /\ Line(<<>>, <<>>)
      <4>1. Line(<<"host_ip">>, <<>>)' BY Zenon, <1>2, <3>2, LineMoves DEF SendKv, Line
      <4> QED BY Zenon, <3>2, <4>1
    <3> QED BY Zenon, <2>2, <3>1, <3>2
  <2>4. ServerUp => ServerUp' BY Zenon, <2>1 DEF ServerUp, hostVars
  <2> QED BY Zenon, <1>0, <2>1, <2>3, <2>4 DEF HandshakeInv
<1>3. CASE ParseKv("awaits ip", "ip", "has ip")
  <2>1. ServerUp /\ Line(<<>>, <<HOST>>) BY Zenon, <1>3 DEF ParseKv, HandshakeInv, Line
  <2>2. /\ device' = "has ip" /\ told' = [told EXCEPT !["ip"] = HOST]
        /\ Line(<<>>, <<>>)' /\ UNCHANGED hostVars
    BY Zenon, <1>3, <2>1, LineMoves DEF ParseKv, Line
  <2>3. told' = [ip |-> HOST, port |-> told.port] BY Zenon, <1>0, <2>2
  <2>4. told' = [ip |-> told'.ip, port |-> told'.port] /\ told'.ip = HOST BY Zenon, <2>3
  <2>5. ServerUp' BY Zenon, <2>1, <2>2 DEF ServerUp, hostVars
  <2> QED BY Zenon, <2>2, <2>4, <2>5 DEF HandshakeInv
<1>4. CASE SendKv("has ip", "host_port", "awaits port")
  <2>1. Line(<<>>, <<>>) /\ ServerUp /\ told.ip = HOST BY Zenon, <1>4 DEF SendKv, HandshakeInv
  <2>2. /\ device' = "awaits port" /\ Line(<<"host_port">>, <<>>)'
        /\ UNCHANGED <<told, hostVars>>
    BY Zenon, <1>4, <2>1, LineMoves DEF SendKv, Line
  <2>3. ServerUp' BY Zenon, <2>1, <2>2 DEF ServerUp, hostVars
  <2> QED BY Zenon, <1>0, <2>1, <2>2, <2>3 DEF HandshakeInv
<1>5. CASE ParseKv("awaits port", "port", "runs")
  <2>1. ServerUp /\ told.ip = HOST /\ Line(<<>>, <<bound>>)
    BY Zenon, <1>5 DEF ParseKv, HandshakeInv, Line
  <2>2. /\ device' = "runs" /\ told' = [told EXCEPT !["port"] = bound]
        /\ Line(<<>>, <<>>)' /\ UNCHANGED hostVars
    BY Zenon, <1>5, <2>1, LineMoves DEF ParseKv, Line
  <2>3. told' = [ip |-> HOST, port |-> bound] BY Zenon, <1>0, <2>1, <2>2
  <2>4. told' = [ip |-> told'.ip, port |-> told'.port] /\ told'.ip = HOST /\ told'.port = bound
    BY Zenon, <2>3
  <2>5. ServerUp' /\ bound' = bound BY Zenon, <2>1, <2>2 DEF ServerUp, hostVars
  <2> QED BY Zenon, <2>2, <2>4, <2>5 DEF HandshakeInv
<1> QED BY Zenon, <1>1, <1>2, <1>3, <1>4, <1>5 DEF Device

(* A callback of the host takes one message and may answer it.             *)
LEMMA CallbackStep ==
  ASSUME HandshakeInv, Callback
  PROVE  HandshakeInv'
<1>0. told = [ip |-> told.ip, port |-> told.port] BY Zenon DEF HandshakeInv
<1>1. UNCHANGED <<device, told>> /\ toHost # <<>>
  BY Zenon DEF Callback, CallbackTargetIP, CallbackHostIP, CallbackHostPort, HostEvent, deviceVars
\* The callback that a message at the head of the line gets.
<1>2. /\ Head(toHost) = "target_ip" => CallbackTargetIP
      /\ Head(toHost) = "host_ip" => CallbackHostIP
      /\ Head(toHost) = "host_port" => CallbackHostPort
  BY Zenon DEF Callback, CallbackTargetIP, CallbackHostIP, CallbackHostPort, HostEvent
<1>3. ASSUME CallbackTargetIP PROVE ServerUp' /\ UNCHANGED toDevice /\ toHost' = Tail(toHost)
  BY Zenon, <1>3 DEF CallbackTargetIP, HostEvent, Setup, ServerUp
<1>4. ASSUME CallbackHostIP \/ CallbackHostPort, ServerUp
      PROVE  /\ ServerUp' /\ toHost' = Tail(toHost) /\ UNCHANGED bound
             /\ CallbackHostIP => toDevice' = Append(toDevice, HOST)
             /\ CallbackHostPort => toDevice' = Append(toDevice, bound)
  BY Zenon, <1>4 DEF CallbackHostIP, CallbackHostPort, HostEvent, ServerUp, hostVars
<1>5. CASE device = "addressed" /\ Line(<<"target_ip">>, <<>>)
  <2>1. CallbackTargetIP BY Zenon, <1>2, <1>5, LineMoves DEF Line
  <2>2. ServerUp' /\ Line(<<>>, <<>>)' BY Zenon, <1>3, <1>5, <2>1, LineMoves DEF Line
  <2> QED BY Zenon, <1>0, <1>1, <1>5, <2>2 DEF HandshakeInv
<1>6. CASE device = "awaits ip" /\ Line(<<"target_ip", "host_ip">>, <<>>)
  <2>1. CallbackTargetIP BY Zenon, <1>2, <1>6, LineMoves DEF Line
  <2>2. ServerUp' /\ Line(<<"host_ip">>, <<>>)' BY Zenon, <1>3, <1>6, <2>1, LineMoves DEF Line
  <2> QED BY Zenon, <1>0, <1>1, <1>6, <2>2 DEF HandshakeInv
<1>7. CASE device = "awaits ip" /\ ServerUp /\ Line(<<"host_ip">>, <<>>)
  <2>1. CallbackHostIP BY Zenon, <1>2, <1>7, LineMoves DEF Line
  <2>2. ServerUp' /\ Line(<<>>, <<HOST>>)' BY Zenon, <1>4, <1>7, <2>1, LineMoves DEF Line
  <2> QED BY Zenon, <1>0, <1>1, <1>7, <2>2 DEF HandshakeInv
<1>8. CASE device = "awaits port" /\ ServerUp /\ told.ip = HOST /\ Line(<<"host_port">>, <<>>)
  <2>1. CallbackHostPort BY Zenon, <1>2, <1>8, LineMoves DEF Line
  <2>2. ServerUp' /\ bound' = bound BY Zenon, <1>4, <1>8, <2>1
  <2>3. toHost' = <<>> /\ toDevice' = <<bound>> BY Zenon, <1>4, <1>8, <2>1, LineMoves DEF Line
  <2>4. Line(<<>>, <<bound>>)' BY Zenon, <2>2, <2>3 DEF Line
  <2> QED BY Zenon, <1>0, <1>1, <1>8, <2>2, <2>4 DEF HandshakeInv
<1> QED BY Zenon, <1>1, <1>5, <1>6, <1>7, <1>8 DEF HandshakeInv, Line

(* Teardown, the server's thread and the client leave the handshake alone. *)
LEMMA ServerSteps ==
  ASSUME HandshakeInv,
         \/ Teardown \/ Stopping \/ Serving \/ Client \/ UNCHANGED hostTestVars
         \/ HandlerHasRoom \/ HandlerSendAll
  PROVE  HandshakeInv'
<1>1. UNCHANGED <<deviceVars, lineVars, hostVars>>
  BY Zenon DEF Teardown, Stopping, ClearRunning, RequestStop, AwaitStop, Join, HostStep,
         Serving, ServeForever, StopServing, AcceptConnection, EchoDatagram, HandleLoop,
         HandlerRecv, HandlerSend, HandlerHasRoom, HandlerSendAll, Leave, Stay, ThreadStep, Client,
         hostTestVars
<1> QED BY Zenon, <1>1 DEF HandshakeInv, Line, ServerUp, deviceVars, lineVars, hostVars

(* test_echo_..._client, the callbacks: whatever the ports, a device that  *)
(* starts its client has been told where the server listens.               *)
THEOREM ServerKnownAlways == HostSpec => []ServerKnown
<1>1. HostInit => HandshakeInv BY Zenon DEF HostInit, HandshakeInv, Line
<1>2. HandshakeInv /\ [HostNext]_hostTestVars => HandshakeInv'
  BY Zenon, DeviceStep, CallbackStep, ServerSteps DEF HostNext
<1>3. HandshakeInv => ServerKnown
  BY Zenon, HostAssumption DEF HandshakeInv, ServerUp, ServerKnown
<1> QED BY <1>1, <1>2, <1>3, PTL DEF HostSpec
=============================================================================

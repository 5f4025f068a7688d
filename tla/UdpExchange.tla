---------------------------- MODULE UdpExchange ----------------------------
(***************************************************************************)
(* Two processes that exchange variables by UDP                            *)
(* (kernel/block_class/udp_exchange.hpp, udp_networking.cpp): the block of *)
(* the one runs output_vars() in each of its steps, the block of the other *)
(* input_vars().  The network loses, doubles, overtakes and damages        *)
(* messages, and either process may restart.                               *)
(***************************************************************************)
EXTENDS Integers, Sequences

CONSTANTS
    Var, Value, V0,  \* variables, their values, the value at the start
    Buf,             \* numbers of the buffers that the sender is given
    VarsOf,          \* the variables of each buffer, in order
    Known,           \* the buffers the receiver is given
    Unsendable,      \* pairs <<v, x>>: the bytes of x do not fit the place of v
    Ill,             \* variables whose place the receiver cannot read
    Uncovered,       \* variables in the odd last byte, outside the control sum
    Alike,           \* pairs of values that the control sum does not tell apart
    W,               \* the counter of a message is modulo W (256 in the code)
    MaxChanges, MaxFaults  \* bounds: changes of a source value, mishaps

Nowhere == -1

ASSUME UdpAssumption ==
    /\ V0 \in Value /\ Buf \subseteq Nat /\ Known \subseteq Buf
    /\ VarsOf \in [Buf -> Seq(Var)]
    /\ Unsendable \subseteq Var \X Value
    /\ Ill \subseteq Var /\ Uncovered \subseteq Var
    /\ Alike \subseteq Value \X Value
    /\ \A x \in Value : <<x, x>> \in Alike
    /\ \A x, y, z \in Value :
          <<x, y>> \in Alike /\ <<y, z>> \in Alike => <<x, z>> \in Alike
    /\ W \in Nat /\ W > 1 /\ MaxChanges \in Nat /\ MaxFaults \in Nat

VARIABLES
    source,   \* sender: the variables of the block
    seen,     \* sender: UdpExchange::_vars, what the class last copied
    left,     \* sender: buffers this call of output_vars() has still to visit
    oCounter, \* sender: _o_counter, its low byte
    net,      \* messages on their way
    inbox,    \* receiver: udp_server_caller::_msgs
    reading,  \* receiver: input_vars() is running
    work,     \* receiver: the messages it took
    result,   \* receiver: the map it will return
    target,   \* receiver: the variables of the block
    iCounter, \* receiver: _i_counter
    changes,  \* number of changes of a source value
    mishaps,  \* what went wrong, in order
    sent,     \* history: number of messages sent
    had,      \* history: values that a source variable has had
    carried,  \* history: the value of a variable in its last message
    heard,    \* history: messages this receiver has looked at
    applied   \* history: messages this receiver has read, in order

sender == <<source, seen, left, oCounter, changes, sent, had, carried>>
receiver == <<inbox, reading, work, result, target, iCounter, heard, applied>>
vars == <<sender, receiver, net, mishaps>>

Carried(b) == {VarsOf[b][i] : i \in DOMAIN VarsOf[b]}
Start == [v \in Var |-> V0]
Values == UNION {[S -> Value] : S \in SUBSET Var}
Message == {m \in [id : Nat, buf : Buf \cup {Nowhere}, cnt : 0 .. W - 1,
                   data : Values, sum : BOOLEAN] :
               m.buf \in Buf => DOMAIN m.data = Carried(m.buf)}

Init ==
    /\ source = Start /\ seen = Start /\ left = {} /\ oCounter = 0
    /\ changes = 0 /\ sent = 0 /\ had = [v \in Var |-> {V0}] /\ carried = Start
    /\ inbox = <<>> /\ reading = FALSE /\ work = <<>> /\ result = <<>>
    /\ target = Start /\ iCounter = 0 /\ heard = {} /\ applied = <<>>
    /\ net = <<>> /\ mishaps = <<>>
----------------------------------------------------------------------------
(* The sender.                                                             *)

(* Another subprogram or a child writes a variable of the block.           *)
SourceChanges(v, x) ==
    /\ left = {} /\ changes < MaxChanges /\ x # source[v]
    /\ source' = [source EXCEPT ![v] = x]
    /\ had' = [had EXCEPT ![v] = @ \cup {x}]
    /\ changes' = changes + 1
    /\ UNCHANGED <<seen, left, oCounter, sent, carried, receiver, net, mishaps>>

StartOutput ==
    /\ left = {} /\ left' = Buf
    /\ UNCHANGED <<source, seen, oCounter, changes, sent, had, carried,
                   receiver, net, mishaps>>

(* The map old with the values of new written over it.                     *)
Over(new, old) ==
    [v \in DOMAIN new \cup DOMAIN old |-> IF v \in DOMAIN new THEN new[v] ELSE old[v]]

Lowest(S) == CHOOSE n \in S : \A k \in S : n <= k

(* The places of b whose variable differs from what the class has copied,  *)
(* and those whose value does not fit.                                     *)
Differs(b) == {i \in DOMAIN VarsOf[b] : source[VarsOf[b][i]] # seen[VarsOf[b][i]]}
Misfits(b, val) == {i \in DOMAIN VarsOf[b] : <<VarsOf[b][i], val[VarsOf[b][i]]>> \in Unsendable}

(* "isChanged = isChanged || copy_data(...)": only the first variable that *)
(* differs is copied, and only if no misfit has ended the loop before it.  *)
Copied(b) ==
    IF Differs(b) = {} \/ \E i \in Misfits(b, seen) : i < Lowest(Differs(b))
    THEN seen
    ELSE LET v == VarsOf[b][Lowest(Differs(b))]
         IN  [seen EXCEPT ![v] = source[v]]

(* What a message is filled with: the values after copying.                *)
Filled_Before(b) == seen
Filled(b) == Copied(b)

(* The low byte of the counter, which all buffers share.                   *)
NextCount == (oCounter + 1) % W

(* One round of the loop of output_vars(), the buffers by their numbers.   *)
(* send_message() hands the message to a thread of its own.                *)
OutputBuffer ==
    /\ left # {}
    /\ LET b == Lowest(left)
           data == [v \in Carried(b) |-> Filled(b)[v]]
           sends == Copied(b) # seen /\ Misfits(b, Copied(b)) = {}
       IN  /\ left' = left \ {b}
           /\ seen' = Copied(b)
           /\ oCounter' = IF sends THEN NextCount ELSE oCounter
           /\ sent' = IF sends THEN sent + 1 ELSE sent
           /\ carried' = IF sends THEN Over(data, carried) ELSE carried
           /\ net' = IF sends
                     THEN Append(net, [id |-> sent', buf |-> b, cnt |-> oCounter',
                                       data |-> data, sum |-> TRUE])
                     ELSE net
    /\ UNCHANGED <<source, changes, had, receiver, mishaps>>

Sender == StartOutput \/ OutputBuffer
----------------------------------------------------------------------------
(* The receiver.                                                           *)

(* The io thread: add_message().                                           *)
Deliver ==
    /\ net # <<>>
    /\ inbox' = Append(inbox, Head(net)) /\ net' = Tail(net)
    /\ UNCHANGED <<sender, reading, work, result, target, iCounter, heard,
                   applied, mishaps>>

(* get_messages(): the list is spliced off under the mutex.                *)
TakeMessages ==
    /\ ~ reading /\ inbox # <<>>
    /\ reading' = TRUE /\ work' = inbox /\ inbox' = <<>> /\ result' = <<>>
    /\ UNCHANGED <<sender, target, iCounter, heard, applied, net, mishaps>>

(* The next message, taken off the list; the counter of the receiver does  *)
(* not fit an unknown buffer or one of the wrong size.                     *)
Msg == Head(work)
Looked == /\ reading /\ work # <<>>
          /\ work' = Tail(work)
          /\ heard' = heard \cup {Msg.id}
          /\ UNCHANGED <<sender, inbox, reading, target, net, mishaps>>

Placed == Msg.buf \in Known
Repeated_Never == FALSE
Repeated_OrOlder == iCounter >= Msg.cnt
Repeated == iCounter = Msg.cnt
Whole_Always == TRUE
Whole == Msg.sum

Misplaced == /\ Looked /\ ~ Placed
             /\ UNCHANGED <<iCounter, result, applied>>

Refuse == /\ Looked /\ Placed /\ Repeated
          /\ UNCHANGED <<iCounter, result, applied>>

(* The counter is taken before the checksum is looked at.                  *)
BadSum == /\ Looked /\ Placed /\ ~ Repeated /\ ~ Whole
          /\ iCounter' = Msg.cnt
          /\ UNCHANGED <<result, applied>>

(* The variables are read in order, up to the first that does not fit.     *)
Read(b) == {VarsOf[b][i] : i \in {k \in DOMAIN VarsOf[b] :
                                    \A j \in 1 .. k : VarsOf[b][j] \notin Ill}}
Accept == /\ Looked /\ Placed /\ ~ Repeated /\ Whole
          /\ iCounter' = Msg.cnt
          /\ result' = Over([v \in Read(Msg.buf) |-> Msg.data[v]], result)
          /\ applied' = Append(applied, Msg.id)

(* The block writes the map that input_vars() returned.                    *)
EndInput ==
    /\ reading /\ work = <<>>
    /\ reading' = FALSE /\ result' = <<>>
    /\ target' = Over(result, target)
    /\ UNCHANGED <<sender, inbox, work, iCounter, heard, applied, net, mishaps>>

Receiver == TakeMessages \/ Misplaced \/ Refuse \/ BadSum \/ Accept \/ EndInput
----------------------------------------------------------------------------
(* What goes wrong.  A thread per message and the network both reorder.    *)
Mishap(kind) == /\ Len(mishaps) < MaxFaults
                /\ mishaps' = Append(mishaps, kind)

Lose(i) ==
    /\ Mishap("lost")
    /\ net' = SubSeq(net, 1, i - 1) \o SubSeq(net, i + 1, Len(net))
    /\ UNCHANGED <<sender, receiver>>

Double(i) ==
    /\ Mishap("doubled")
    /\ net' = SubSeq(net, 1, i) \o SubSeq(net, i, Len(net))
    /\ UNCHANGED <<sender, receiver>>

Overtake(i) ==
    /\ i < Len(net) /\ Mishap("overtaken")
    /\ net' = [net EXCEPT ![i] = net[i + 1], ![i + 1] = net[i]]
    /\ UNCHANGED <<sender, receiver>>

(* Damage to the number or the size; to the counter; to a variable.  The   *)
(* control sum tells the last two, unless the byte is outside its words or *)
(* a word of zeros has become one of ones.                                 *)
Unnoticed(v, old, new) == v \in Uncovered \/ <<old, new>> \in Alike
Damages(m) ==
    {[m EXCEPT !.buf = Nowhere]}
    \cup {[m EXCEPT !.cnt = k, !.sum = FALSE] : k \in 0 .. W - 1}
    \cup UNION {{[m EXCEPT !.data[v] = x,
                            !.sum = (m.sum /\ Unnoticed(v, m.data[v], x))] :
                    x \in Value} : v \in DOMAIN m.data}

Damage(i) ==
    /\ Mishap("damaged")
    /\ \E m \in Damages(net[i]) \ {net[i]} : net' = [net EXCEPT ![i] = m]
    /\ UNCHANGED <<sender, receiver>>

SenderRestarts ==
    /\ Mishap("sender")
    /\ source' = Start /\ seen' = Start /\ left' = {} /\ oCounter' = 0
    /\ carried' = Start
    /\ UNCHANGED <<changes, sent, had, receiver, net>>

ReceiverRestarts ==
    /\ Mishap("receiver")
    /\ inbox' = <<>> /\ reading' = FALSE /\ work' = <<>> /\ result' = <<>>
    /\ target' = Start /\ iCounter' = 0 /\ heard' = {} /\ applied' = <<>>
    /\ UNCHANGED <<sender, net>>

Faults ==
    \/ \E i \in 1 .. Len(net) : Lose(i) \/ Double(i) \/ Overtake(i) \/ Damage(i)
    \/ SenderRestarts \/ ReceiverRestarts

Next ==
    \/ \E v \in Var, x \in Value : SourceChanges(v, x)
    \/ Sender \/ Deliver \/ Receiver \/ Faults

Spec == Init /\ [][Next]_vars

(* Both processes make their steps and what is not lost arrives.           *)
FairSpec == Spec /\ WF_vars(Sender) /\ WF_vars(Deliver) /\ WF_vars(Receiver)
----------------------------------------------------------------------------
Kind == {"lost", "doubled", "overtaken", "damaged", "sender", "receiver"}
Happened(kind) == \E i \in 1 .. Len(mishaps) : mishaps[i] = kind

(* Type invariant.                                                         *)
TypeOK ==
    /\ source \in [Var -> Value] /\ seen \in [Var -> Value]
    /\ left \subseteq Buf /\ oCounter \in 0 .. W - 1
    /\ net \in Seq(Message) /\ inbox \in Seq(Message) /\ work \in Seq(Message)
    /\ reading \in BOOLEAN /\ result \in Values
    /\ target \in [Var -> Value] /\ iCounter \in 0 .. W - 1
    /\ changes \in 0 .. MaxChanges
    /\ mishaps \in Seq(Kind) /\ Len(mishaps) <= MaxFaults
    /\ sent \in Nat /\ had \in [Var -> SUBSET Value]
    /\ carried \in [Var -> Value] /\ heard \subseteq Nat /\ applied \in Seq(Nat)

(* When no message overtakes another and none is damaged, a receiver reads *)
(* each message at most once and in the order of sending, whatever is lost *)
(* or doubled, and whoever restarts.                                       *)
InOrderOnce ==
    ~ Happened("overtaken") /\ ~ Happened("damaged") =>
        \A i \in 2 .. Len(applied) : applied[i - 1] < applied[i]

(* A variable inside the control sum never gets a value that the sender    *)
(* has not had, or one that the sum cannot tell from it, whatever the      *)
(* network does to the messages.                                           *)
Passable == [v \in Var |-> {x \in Value : \E y \in had[v] : <<y, x>> \in Alike}]
ValuesWereHad == \A v \in Var \ Uncovered : target[v] \in Passable[v]

(* Nothing the class has copied is forgotten: between two calls a variable *)
(* that its buffer can carry was last sent with the value that was copied, *)
(* if no variable is in two buffers.                                       *)
NoneForgotten ==
    (\A b, c \in Buf : b # c => Carried(b) \cap Carried(c) = {}) =>
        \A b \in Buf : Misfits(b, seen) = {} =>
            \A v \in Carried(b) : carried[v] = seen[v]

(* If nothing goes wrong and the source comes to rest, the receiver ends   *)
(* with the values of the sender, although a message may mix the old value *)
(* of one variable with the new value of another.                          *)
Fine == mishaps = <<>> /\ Known = Buf
Readable(v) == \E b \in Buf : v \in Read(b) /\ Misfits(b, source) = {}
Converges ==
    (Fine /\ changes = MaxChanges)
        ~> (~ Fine \/ \A v \in Var : Readable(v) => target[v] = source[v])

(* udp_exchange.hpp:225: only repeated messages are not allowed.           *)
OnlyRepeatsRefused == [][Refuse => Msg.id \in heard]_vars

(* udp_exchange.hpp:267: with a wrong value the whole buffer is rejected.  *)
WrongValueRejectsBuffer ==
    \A b \in Buf : Carried(b) \cap Ill # {} =>
        \A v \in Carried(b) : target[v] = V0
=============================================================================

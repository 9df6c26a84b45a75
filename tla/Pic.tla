--------------------------------- MODULE Pic ---------------------------------
(***************************************************************************)
(* The two 8259 interrupt controllers and the functions of isr.c that      *)
(* program them, from a state of the controllers to the next.  A           *)
(* controller keeps the requests it has latched, those in service and the  *)
(* masked ones, as sets of its pins; the second hangs on pin 2 of the      *)
(* first.                                                                  *)
(***************************************************************************)
EXTENDS Integers, FiniteSets, FiniteSetsExt

CONSTANT Pins        \* pins of a controller: 8

ASSUME PicAssumption == Pins \in Nat /\ Pins > 2

Pin == 0..(Pins - 1)
Irq == 0..(2 * Pins - 1)
Cascade == 2
ChipOf(irq) == IF irq < Pins THEN 0 ELSE 1

(* The controllers as the firmware leaves them.                            *)
PicInit == [c \in 0..1 |-> [irr |-> {}, isr |-> {}, imr |-> {}]]

(* What becomes of the registers of one controller.                        *)
Requested(chip, l) == [chip EXCEPT !.irr = @ \cup {l}]
InService(chip, l) == [irr |-> chip.irr \ {l}, isr |-> chip.isr \cup {l}, imr |-> chip.imr]
Ended(chip, l)     == [chip EXCEPT !.isr = @ \ {l}]
SetMask(chip, lines) == [chip EXCEPT !.imr = lines]
Unmasked(chip, l)  == SetMask(chip, chip.imr \ {l})

(* An edge on the wire of a line is remembered, masked or not.             *)
Latch(pic, irq) == [pic EXCEPT ![ChipOf(irq)] = Requested(@, irq % Pins)]

(* Requests that are open and more urgent than everything in service.      *)
Open(chip) == {l \in chip.irr \ chip.imr : \A s \in chip.isr : l < s}
Wires(pic) == IF Open(pic[1]) = {} THEN pic[0] ELSE Requested(pic[0], Cascade)
Pending(pic) == Open(Wires(pic))

(* The line the processor is told of, and what its acknowledgement does.   *)
Vector(pic) ==
    LET l == Min(Pending(pic)) IN IF l = Cascade THEN Pins + Min(Open(pic[1])) ELSE l
Accept(pic) ==
    LET irq == Vector(pic)
    IN  IF irq < Pins THEN [pic EXCEPT ![0] = InService(@, irq)]
        ELSE [pic EXCEPT ![0] = InService(@, Cascade), ![1] = InService(@, irq - Pins)]

(* The command 0x20 ends what is most urgent.                              *)
EndOfInterrupt(chip) == IF chip.isr = {} THEN chip ELSE Ended(chip, Min(chip.isr))
------------------------------------------------------------------------------
(* The four initialisation words: requests and masks are forgotten, and a  *)
(* wire that is up has to fall first to be noticed again.                  *)
Initialised == [irr |-> {}, isr |-> {}, imr |-> {}]
irq_remap == [c \in 0..1 |-> Initialised]

(* pic_init of one controller, then its mask.                              *)
pic_init(pic, c) == [pic EXCEPT ![c] = Initialised]
pic_mask(pic, c) ==
    [pic EXCEPT ![c] = SetMask(@, IF c = 0 THEN Pin \ {Cascade} ELSE Pin)]

(* Mutant: the complement is forgotten, mask&(1<<irq).                     *)
irq_enable_NoComplement(pic, irq) ==
    IF irq < Pins THEN [pic EXCEPT ![0] = SetMask(@, pic[0].imr \cap {irq})]
    ELSE [pic EXCEPT ![1] = SetMask(@, {}), ![0] = SetMask(@, pic[0].imr \cap {Cascade})]

(* 1<<irq is no bit of a byte for a line of the second controller, whose   *)
(* mask stays as it is.                                                    *)
irq_enable(pic, irq) ==
    IF irq < Pins THEN [pic EXCEPT ![0] = Unmasked(@, irq)]
    ELSE [pic EXCEPT ![1] = Unmasked(@, irq), ![0] = Unmasked(@, Cascade)]

pic_disable(pic, irq) ==
    [pic EXCEPT ![ChipOf(irq)] = SetMask(@, pic[ChipOf(irq)].imr \cup ({irq} \cap Pin))]

pic_acknowledge(pic, irq) ==
    IF irq < Pins THEN [pic EXCEPT ![0] = Ended(@, irq)]
    ELSE [pic EXCEPT ![1] = Ended(@, irq - Pins), ![0] = Ended(@, Cascade)]

(* Mutant: "greater than 40", as the comment has it.                       *)
Acknowledged_Greater(pic, irq) ==
    [c \in 0..1 |-> IF c = 0 \/ irq > Pins THEN EndOfInterrupt(pic[c]) ELSE pic[c]]

(* The end of irq_handler.                                                 *)
Acknowledged(pic, irq) ==
    [c \in 0..1 |-> IF c = 0 \/ irq >= Pins THEN EndOfInterrupt(pic[c]) ELSE pic[c]]
==============================================================================

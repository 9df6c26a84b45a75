--------------------------------- MODULE Pci ---------------------------------
(***************************************************************************)
(* io/pci.c: reading the configuration space and the scan of all buses.    *)
(* Configuration space answers a double word, here its two words, at an    *)
(* address; where no function answers, every bit is set.                   *)
(***************************************************************************)
EXTENDS Integers, Sequences, SequencesExt

CONSTANTS
    Buses, Slots, Funcs,   \* 256, 32, 8
    TableSize                  \* of pci_devices: 32

ASSUME PciAssumption ==
    /\ Buses \in 1..256 /\ Slots \in 1..32 /\ Funcs \in 1..8 /\ TableSize \in Nat

None == 65535                  \* 0xffff

(* The functions of the machine, in the order of the scan.                 *)
Place == (0..(Buses - 1)) \X (0..(Slots - 1)) \X (0..(Funcs - 1))
Step(i) == <<i \div (Slots * Funcs), (i \div Funcs) % Slots, i % Funcs>>
Steps == Buses * Slots * Funcs

(* What a function says of itself.                                         *)
Function == [vendor : (0..None) \ {None}, device : 0..None, class : 0..255, subclass : 0..255]

(* What a machine answers: at an address, which names the bus, the slot,   *)
(* the function and the double word.                                       *)
Answer(machine, address) ==
    LET place == <<(address \div 65536) % 256, (address \div 2048) % 32, (address \div 256) % 8>>
        offset == address % 256
    IN  IF place \notin DOMAIN machine THEN <<None, None>>
        ELSE LET f == machine[place]
             IN  CASE offset = 0 -> <<f.vendor, f.device>>
                   [] offset = 8 -> <<0, 256 * f.class + f.subclass>>
------------------------------------------------------------------------------
pci_config_read_word(machine, bus, slot, func, offset) ==
    LET address == bus * 65536 + slot * 2048 + func * 256 + 4 * (offset \div 4)
    IN  Answer(machine, address)[1 + (offset % 4) \div 2]

pci_get_vendor(machine, p) == pci_config_read_word(machine, p[1], p[2], p[3], 0)
pci_get_device(machine, p) == pci_config_read_word(machine, p[1], p[2], p[3], 2)
pci_get_class(machine, p) == pci_config_read_word(machine, p[1], p[2], p[3], 10) \div 256
pci_get_subclass(machine, p) == pci_config_read_word(machine, p[1], p[2], p[3], 10) % 256

(* The entry of the table for a function that answers.                     *)
Entry(machine, p) ==
    [bus |-> p[1], slot |-> p[2], func |-> p[3],
     vendor |-> pci_get_vendor(machine, p), device |-> pci_get_device(machine, p),
     class |-> pci_get_class(machine, p), subclass |-> pci_get_subclass(machine, p)]
==============================================================================

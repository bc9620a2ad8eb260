-------------------------------- MODULE Pci --------------------------------
(***************************************************************************)
(* The port dispatch of dev/io.hpp and the configuration registers of      *)
(* dev/pci.hpp, with the devices main attaches to them.  A 32-bit word is  *)
(* the pair of its halves.                                                 *)
(***************************************************************************)
EXTENDS Integers, Sequences

CFG_ADDR == 3320    \* PCI_CFG_ADDR, 0xcf8
CFG_DATA == 3324    \* PCI_CFG_DATA, 0xcfc

AllOnes == <<65535, 65535>>

\* What main registers with the I/O controller, in that order.  The ATA
\* controller is not among them: only its descriptor is on the PCI bus.
IoDevices == <<[name |-> "pci", ports |-> {CFG_ADDR, CFG_DATA}],
               [name |-> "i8042", ports |-> {96, 100}]>>

\* dev_io_t: the first device that lists the port.
PortOwner(port) ==
    LET hits == {i \in DOMAIN IoDevices : port \in IoDevices[i].ports}
    IN  IF hits = {} THEN "nobody"
        ELSE IoDevices[CHOOSE i \in hits : \A j \in hits : i <= j].name

\* pci.register_device: slots 0, 1 and 4 of bus 0.
Descriptor == [devid : Nat, vendor : Nat, class : Nat, subclass : Nat]
Keyboard == [devid |-> 32834, vendor |-> 32902, class |-> 9, subclass |-> 0]
Display == [devid |-> 0, vendor |-> 32902, class |-> 3, subclass |-> 0]
Storage == [devid |-> 0, vendor |-> 32902, class |-> 1, subclass |-> 1]

Registered == {0, 1, 4}

DescriptorAt(slot) ==
    CASE slot = 0 -> Keyboard [] slot = 1 -> Display [] slot = 4 -> Storage

Slots == 0 .. 31

\* The address word as pci_read_cfg_register composes it.
ConfigAddress(bus, slot, reg) == bus * 65536 + slot * 2048 + (reg - (reg % 4))

\* How the bus takes it apart again.
BusOf(addr) == (addr \div 65536) % 256
SlotOf(addr) == (addr \div 2048) % 32
WordOf(addr) == (addr % 256) \div 4

\* read(PCI_CFG_DATA) with address addr in the address register: the words
\* with the identity and the class; of the lower half of the class word no
\* more than that it is there.  The enable bit of the address is not looked at.
ConfigData(addr) ==
    IF BusOf(addr) # 0 \/ SlotOf(addr) \notin Registered THEN AllOnes
    ELSE LET d == DescriptorAt(SlotOf(addr))
         IN  CASE WordOf(addr) = 0 -> <<d.devid, d.vendor>>
               [] WordOf(addr) = 2 -> <<d.class * 256 + d.subclass, 0>>
               [] OTHER -> AllOnes
=============================================================================

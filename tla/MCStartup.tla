----------------------------- MODULE MCStartup -----------------------------
(***************************************************************************)
(* Small instances of BootLog: the table of src/platforms/virt.c, one      *)
(* without UARTs, one with an unknown device, one with more UARTs than     *)
(* there is room for, one with the UART ahead of the PLIC, and one with    *)
(* two UARTs on one interrupt.                                             *)
(***************************************************************************)
EXTENDS BootLog

Plic == [name |-> "plic", addr |-> 201326592, irq |-> 0]
Uart(irq) == [name |-> "uart8250", addr |-> 268435456, irq |-> irq]

DEV_TABLE == <<Plic, Uart(10)>>

McTables ==
    {DEV_TABLE, <<Plic>>, <<Plic, Uart(10), [name |-> "rtc", addr |-> 1, irq |-> 1], Uart(11)>>,
     <<Plic, Uart(11), Uart(10), Uart(12)>>, <<Uart(10), Plic>>,
     <<Plic, Uart(10), Uart(10)>>}
=============================================================================

------------------------------ MODULE MCSerial ------------------------------
(* A line before interrupts are enabled and lines after it, shorter and    *)
(* longer than what the handler writes.                                    *)
EXTENDS Serial

Log(status, size) == [do |-> "log", status |-> status, size |-> size]
Enable == [do |-> "sti"]

SomeBoots ==
    { <<Log("INFO", 3), Enable, Log("WARNING", 1), Log("SUCCESS", 3)>>,
      <<Enable, Log("FAIL", 3), Log("PANIC", 1)>> }
Sizes == [colour |-> 1, banner |-> 1, name |-> 1, dump |-> 2, reset |-> 1, halting |-> 2]
=============================================================================

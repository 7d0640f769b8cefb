--------------------------- MODULE MCTrapHandler ---------------------------
(***************************************************************************)
(* Model-checking instances of TrapHandler.                                *)
(***************************************************************************)
EXTENDS TrapHandler

Config(priv, paging, deleg, skip, irq, rvcp) ==
  [priv |-> priv, paging |-> paging, deleg |-> deleg, skip |-> skip,
   irq |-> irq, rvcp |-> rvcp]

\* Every mode of the test, with the paging that makes the two addresses of the
\* hart context differ, both ways to handle an unexpected exception, exceptions
\* handled in either mode, and interrupts where the model has them.
MCConfigs ==
  {Config("M", FALSE, FALSE, TRUE, FALSE, TRUE),
   Config("M", FALSE, FALSE, FALSE, TRUE, FALSE),
   Config("M", TRUE, TRUE, FALSE, FALSE, FALSE),
   Config("S", TRUE, TRUE, FALSE, FALSE, FALSE),
   Config("S", TRUE, FALSE, FALSE, FALSE, FALSE),
   Config("U", TRUE, TRUE, TRUE, FALSE, FALSE)}

InterruptConfigs == {Config("M", FALSE, FALSE, FALSE, TRUE, FALSE)}

PagingInterruptConfigs == {Config("M", TRUE, FALSE, FALSE, TRUE, FALSE)}

PrintConfigs == {Config(priv, FALSE, TRUE, FALSE, FALSE, TRUE) : priv \in {"M", "S"}}

Expected(cause, m, skip_pc, tval, re_execute) ==
  [cause |-> cause, mode |-> m, pc |-> 1, return_pc |-> 2, skip_pc |-> skip_pc,
   tval |-> tval, re_execute |-> re_execute]

\* Illegal instruction by address, or in the supervisor's handler with a trap
\* value; ECALL in the machine's handler at any address, to be executed again.
MCExpectations ==
  {Expected(2, 0, 0, 0, 0), Expected(2, 3, 0, 1, 0), Expected(9, 1, 1, 0, 1)}
=============================================================================

--------------------------------- MODULE Pll --------------------------------
(***************************************************************************)
(* The search for the dividers of a PLL in driver/clk/sifive/prci.c.       *)
(* The input is divided by divr + 1 to the reference, multiplied by        *)
(* 2 * (divf + 1) to the VCO and shifted right by divq to the output.      *)
(* Three nested loops try all dividers and keep the first ones that come   *)
(* nearest to the target.  The least output is at least two units.         *)
(*                                                                         *)
(* Frequencies are numbers; the unit and the limits belong to the instance *)
(* (the driver has 64-bit Hertz, which no frequency here exceeds).         *)
(***************************************************************************)
EXTENDS Integers, FiniteSetsExt

CONSTANTS
  RefBounds,    \* PRCI_REF_MIN, PRCI_REF_RANGE1 .. PRCI_REF_RANGE7
  VcoMin,       \* PRCI_VCO_MIN
  VcoMax,       \* PRCI_VCO_MAX
  DivrMax,      \* PRCI_PLLCFG_DIVR_MAX
  DivfMax,      \* PRCI_PLLCFG_DIVF_MAX
  DivqMax       \* PRCI_PLLCFG_DIVQ_MAX

ASSUME PllAssumption ==
  /\ RefBounds \in [1 .. 8 -> Nat]
  /\ \A k \in 1 .. 7 : RefBounds[k] < RefBounds[k + 1]
  /\ {VcoMin, VcoMax, DivrMax, DivfMax, DivqMax} \subseteq Nat \ {0}
  /\ \A q \in 0 .. DivqMax - 1 : 2^q \in Nat \ {0} /\ 2 * 2^q <= VcoMin

RefMin == RefBounds[1]
RefMax == RefBounds[8]

Distance(a, b) == IF a < b THEN b - a ELSE a - b

\* struct clk_prci_pllcfg as clk_prci_update_pllcfg clears it: the *_found
\* fields, the result and the reference that goes with them.
NotFound == [found |-> FALSE, result |-> 0, ref |-> 0, divr |-> 0, divf |-> 0, divq |-> 0,
             range |-> 0]

\* clk_prci_filter_range for a reference the loop over divr lets through.
FilterRange(ref) == CHOOSE k \in 1 .. 7 : RefBounds[k] <= ref /\ ref < RefBounds[k + 1]

\* The settings of the two inner loops for a reference, and what comes out.
Settings(ref) ==
  {x \in (0 .. DivfMax - 1) \X (0 .. DivqMax - 1) :
     (ref * 2 * (x[1] + 1)) \in VcoMin .. VcoMax - 1}
Post(ref, x) == (ref * 2 * (x[1] + 1)) \div 2^x[2]

\* clk_prci_find_divf and clk_prci_find_divq for one reference: only what is
\* strictly nearer replaces what is found, so the loops leave the first of
\* the nearest settings.
FirstNearest(target, ref) ==
  LET D(x) == Distance(target, Post(ref, x))
      near == Min({D(x) : x \in Settings(ref)})
      ties == {x \in Settings(ref) : D(x) = near}
  IN CHOOSE x \in ties : \A y \in ties : x[1] < y[1] \/ (x[1] = y[1] /\ x[2] <= y[2])

\* Mutant: the multiplier of an earlier reference is kept.
FindDivfKept(conf, target, divr, ref) ==
  IF Settings(ref) = {} THEN conf
  ELSE LET x == FirstNearest(target, ref) IN
       IF Distance(target, Post(ref, x)) >= Distance(target, conf.result) THEN conf
       ELSE [conf EXCEPT !.found = TRUE, !.result = Post(ref, x), !.ref = ref,
                         !.divr = divr, !.divq = x[2]]

FindDivf(conf, target, divr, ref) ==
  IF Settings(ref) = {} THEN conf
  ELSE LET x == FirstNearest(target, ref) IN
       IF Distance(target, Post(ref, x)) >= Distance(target, conf.result) THEN conf
       ELSE [conf EXCEPT !.found = TRUE, !.result = Post(ref, x), !.ref = ref,
                         !.divr = divr, !.divf = x[1], !.divq = x[2]]

\* clk_prci_find_divr: what clk_prci_update_pllcfg writes to the register,
\* or NotFound.  tried[i] is what is found when the loop has tried i values.
FindDivr(freqIn, target) ==
  LET tried[i \in 0 .. DivrMax] ==
        IF i = 0 THEN NotFound
        ELSE LET ref == freqIn \div i IN
             IF ref < RefMin \/ RefMax <= ref THEN tried[i - 1]
             ELSE FindDivf(tried[i - 1], target, i - 1, ref)
      conf == tried[DivrMax]
  IN IF conf.found THEN [conf EXCEPT !.range = FilterRange(conf.ref)] ELSE conf
------------------------------------------------------------------------------
(* The reference: the dividers the PLL accepts and what it makes of them.  *)

Refs(freqIn) == {r \in 0 .. DivrMax - 1 : (freqIn \div (r + 1)) \in RefMin .. RefMax - 1}
Dividers(freqIn) ==
  {d \in [r : Refs(freqIn), f : 0 .. DivfMax - 1, q : 0 .. DivqMax - 1] :
     ((freqIn \div (d.r + 1)) * 2 * (d.f + 1)) \in VcoMin .. VcoMax - 1}
Output(freqIn, d) == ((freqIn \div (d.r + 1)) * 2 * (d.f + 1)) \div 2^d.q

\* A setting that a PLL accepts, that gives the frequency recorded for it,
\* with the range that fits its reference.
Sound(freqIn, conf) ==
  LET d == [r |-> conf.divr, f |-> conf.divf, q |-> conf.divq] IN
  /\ d \in Dividers(freqIn)
  /\ conf.result = Output(freqIn, d)
  /\ RefBounds[conf.range] <= freqIn \div (d.r + 1)
  /\ freqIn \div (d.r + 1) < RefBounds[conf.range + 1]

\* Nothing that a PLL accepts comes nearer to the target than f.
Nearest(freqIn, target, f) ==
  \A d \in Dividers(freqIn) : Distance(target, Output(freqIn, d)) >= Distance(target, f)
=============================================================================

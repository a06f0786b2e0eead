------------------------------- MODULE MCJudging -------------------------------
(***************************************************************************)
(* Two test cases' contents, `small' and `large'.  The program `good'      *)
(* passes both; `half' gives a wrong answer to `large'; `slow' needs, for  *)
(* `large', more time than the tight limits allow, and is killed by the    *)
(* kernel; `broken' does not compile.                                      *)
(***************************************************************************)
EXTENDS Judging, TLC

MCLimits == {"tight", "loose"}
MCData == {"small", "large"}
MCArchives == {<<"large">>, <<"small", "large">>}
MCJobs == 1..MaxRows
MCSymmetry == Permutations(Workers)

MCCompiles(program) == program # "broken"

Clean == [killed |-> FALSE, signal |-> "none", exit |-> 0, memory |-> FALSE, right |-> TRUE]

MCRunOf(program, test, limits) ==
    CASE program = "half" /\ test = "large" -> [Clean EXCEPT !.right = FALSE]
      [] program = "slow" /\ test = "large" /\ limits = "tight" ->
            [Clean EXCEPT !.signal = "XCPU", !.right = FALSE]
      [] OTHER -> Clean
=============================================================================

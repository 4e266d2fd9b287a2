---------------------------- MODULE MCTransaction ----------------------------
(* Requests of at most MaxSteps steps over two aliases.                    *)
EXTENDS Transaction

CONSTANTS a, b

MCSteps(op) ==
    CASE op = "locate" -> [op : {op}, name : {a, b}, within : {NoAlias, a},
                           expect : {FALSE}, consequence : {FALSE}]
      [] op = "expect" -> [op : {op}, name : {NoAlias}, within : {NoAlias, a},
                           expect : {FALSE}, consequence : {FALSE}]
      [] op = "act"    -> [op : {op}, name : {a, b}, within : {NoAlias},
                           expect : BOOLEAN, consequence : BOOLEAN]
      [] op = "scroll" -> [op : {op}, name : {NoAlias, a}, within : {NoAlias},
                           expect : {FALSE}, consequence : {FALSE}]

MCRequests ==
    LET AllSteps == UNION {MCSteps(op) : op \in Operations}
        Programs == UNION {[1..k -> AllSteps] : k \in 1..MaxSteps}
        Known(steps) == \A k \in 1..Len(steps) : StepValid(steps, k)
    IN {r \in [steps : {p \in Programs : Known(p)}, foreground : BOOLEAN,
                     opens : BOOLEAN, final : BOOLEAN] : Valid(r)}
=============================================================================

----------------------------- MODULE MCStagedRun -----------------------------
(***************************************************************************)
(* An engine with an input x of any number of rows, an input m of one      *)
(* value, and outputs y, of the shape of x, and z, of one value per row.   *)
(* The shapes of the outputs tell that of x, so the checks of the outputs  *)
(* find a shape that a later refusal (MayRefuse) left in the context.      *)
(***************************************************************************)
EXTENDS StagedRun

EngineTensors == [x |-> [mode |-> 1, dims |-> <<-1, 3>>, dtype |-> 2],
                  m |-> [mode |-> 1, dims |-> <<1>>, dtype |-> 4],
                  y |-> [mode |-> 2, dims |-> <<-1, 3>>, dtype |-> 1],
                  z |-> [mode |-> 2, dims |-> <<-1>>, dtype |-> 2]]

RowsOf(dims) == [y |-> dims.x, z |-> <<dims.x[1]>>]

X(rows, at) == IF at = "device" THEN DeviceTensor("x", <<rows, 3>>, "int8", 3 * rows, FALSE)
               ELSE HostInput("x", <<rows, 3>>, {}, 3 * rows,
                              IF at = "staged" THEN "device" ELSE "host")
M(at) == IF at = "device" THEN DeviceTensor("m", <<1>>, "bool", 1, FALSE)
         ELSE HostInput("m", <<1>>, {"bool"}, 1, IF at = "staged" THEN "device" ELSE "host")
OnHost(rows) == <<HostOutput("y", <<rows, 3>>, 6 * rows), HostOutput("z", <<rows>>, rows)>>
OnDevice(rows) == <<DeviceTensor("y", <<rows, 3>>, "half", 6 * rows, FALSE),
                    DeviceTensor("z", <<rows>>, "int8", rows, FALSE)>>

Request(kind, inputs, outputs) == [kind |-> kind, inputs |-> inputs, outputs |-> outputs]

(* Of each kind; one without m; one that names x twice; and one whose bytes *)
(* for six rows are those of the product modulo sixteen, the width of the   *)
(* model's usize.                                                           *)
AllRequests == {
    Request("host", <<X(1, "staged"), M("host")>>, OnHost(1)),
    Request("allocating", <<X(2, "host"), M("staged")>>, <<>>),
    Request("to_device", <<X(2, "host"), M("host")>>, OnDevice(2)),
    Request("to_device", <<X(1, "staged")>>, OnDevice(1)),
    Request("mixed", <<X(1, "device"), M("staged")>>, OnDevice(1)),
    Request("device", <<X(1, "device"), X(2, "device"), M("device")>>, OnDevice(2)),
    Request("enqueue", <<X(1, "device"), M("device")>>, OnDevice(1)),
    Request("to_device", <<HostInput("x", <<6, 3>>, {}, 2, "host"), M("host")>>,
            <<DeviceTensor("y", <<6, 3>>, "half", 4, FALSE),
              DeviceTensor("z", <<6>>, "int8", 6, FALSE)>>)}

Symmetric == Permutations(Ids) \cup Permutations(Contexts)
                \cup Permutations(Buffers) \cup Permutations(Streams)
=============================================================================

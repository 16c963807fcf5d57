# Verification project for `paddle.fluid.dygraph.nn` and its tests

This directory holds TLA+ models of the Python code under `src/`, the TLC
configurations that check them, and TLAPS proofs about them. The repository
slice has four files:

| file | what it is |
|---|---|
| `src/python/paddle/fluid/dygraph/nn.py` | the legacy layer API: `Conv3D`, `Conv3DTranspose`, `Linear`, `BatchNorm`, `Embedding`, `RowConv`, `GroupNorm`, `SpectralNorm`, `TreeConv`, `Flatten` |
| `src/test/legacy_test/test_dygraph_multi_forward.py` | trains an MNIST network once eagerly (dygraph) and once as a static program, and compares the results |
| `src/test/ir/inference/test_trt_convert_shape.py` | a TensorRT converter test: generators of program configurations and predictor configurations for the `shape` op |
| `src/test/auto_parallel/spmd_rules/test_stack_rule.py` | unit test of the SPMD sharding rule of `stack` |

## 1. Inventory

### Components, their state and their operations

**Layers of `nn.py`.** Every layer is an object built by `__init__` and called
through `forward`. State kept by a layer:
- its constructor arguments, stored as attributes such as `_groups`, `_is_test` and `_padding_idx`;
- the parameters `__init__` creates through `create_parameter`. This helper belongs to `Layer` and is not under `src/`. It returns `None` when the attribute argument is `False`;
- for `BatchNorm`, the running statistics `_mean` and `_variance`;
- the `training` flag that `Layer.train()` and `Layer.eval()` set.

`forward` has up to three paths, chosen by the global execution mode:
- **eager** (`in_dygraph_mode`): a `_C_ops` kernel runs at once;
- **legacy eager** (`_in_legacy_dygraph`): a `_legacy_C_ops` kernel runs at once;
- **static**: `LayerHelper.append_op` appends ops to the main program. An executor runs that program later.

The layers interact only through the program they append to and the
variables they pass between them. Each layer's main operations and state:
- `Conv3D`: `__init__` checks that `num_channels` is divisible by `groups` and creates the filter and the bias. `forward` appends `conv3d`, an optional `elementwise_add` for the bias, and an activation.
- `Conv3DTranspose`: `__init__` creates a filter of shape `[C, F // groups, ...]` and a bias. `forward` adds the bias only `if self._bias_attr`.
- `Linear`: `forward` runs `matmul`, adds the bias when there is one, then applies the activation. It does this in both the eager and the static path.
- `BatchNorm`: `__init__` asserts on `bias_attr` and computes the `stop_gradient` flags of the scale and shift. `forward` passes `is_test = not self.training` in the eager modes. In static mode it passes `is_test = self._is_test`. The running statistics are updated in place, because `mean_out` is `self._mean`.
- `Embedding`: `__init__` normalises `padding_idx`: `None` becomes -1 and a negative index becomes `size[0] + padding_idx`. `forward` calls `lookup_table_v2`.
- `RowConv`: asserts static mode. `_build_once` creates the filter on the first call.
- `GroupNorm`: creates its scale and shift from `param_attr or False` and `bias_attr or False`. `forward` has three paths.
- `SpectralNorm`: checks `weight_shape` and `dim`, then creates `u` of length `h = weight_shape[dim]` and `v` of length `prod // h`.
- `TreeConv`: when it has a `name`, its output variable is the named variable, reused on every call.
- `Flatten`: delegates to `paddle.tensor.manipulation.flatten`.

**The multi-forward test.** It has two phases that share nothing but the seed:
- The eager phase builds MNIST, calls `eval()`, runs one forward per batch, and records the parameter values at batch 0.
- The static phase builds the same network into a program and runs the startup program. PIR maps startup parameters to main-program parameters through `create_parameter_mapping`. The phase then runs the main program once per batch.
- The test finally compares the initial parameters and the last loss of the two phases.

**The TensorRT shape test.** It consists of two generators, driven by the harness `TrtLayerAutoScanTest`. The harness is not under `src/`.
- `sample_program_configs` sets `self.dims` and yields a program configuration. Its input generator `partial(generate_input1, batch)` reads `self.dims` when it is called.
- For each program configuration, `sample_predictor_configs` mutates `self.dynamic_shape`, `self.trt_param.precision` and the configuration's input type. It yields four predictor configurations (two with `run_pir`), each with its expected node counts.
- The harness interleaves the two generators. `self.dims` and `self.dynamic_shape` are state shared across the `yield`s.

**The stack SPMD test.** `core.get_phi_spmd_rule("stack")` is native code and is not in the slice. The test states the rule's expected forward and backward results for two inputs mapped `[0, -1]`.

### What is hard to test here

Only the TensorRT test runs two coroutines over shared state; the rest is
sequential. The hard parts are:
- sequences of calls on one object: construction, then any order of `train()`/`eval()`, forward calls and executor runs;
- which of the three execution paths runs;
- argument combinations the docstrings allow but nobody tests;
- state read at one time and used later: the `is_test` frozen into a static op, a shared output name, and `self.dims` read across a `yield`.

`PROJECT.json` lists each hazard at its line.

### Properties that make each component correct

- **BatchNorm.** With eager `eval()` and no `trainable_statistics`, the running statistics never move. With `use_global_stats` they never move in any mode. The constructor accepts every documented argument combination.
- **Convolutions.** The bias a layer creates is the bias its forward adds. The channel counts of the filter, the `groups` attribute and the bias agree.
- **Program composition.** A variable a forward returns is not overwritten by a later forward.
- **TensorRT test.** Every yielded predictor configuration is self-consistent:
  - the precision agrees with the input type;
  - a dynamic shape is configured exactly when the expected node counts are (1, 2);
  - the dynamic shape's rank is that of the program's input.
- **Multi-forward test.** The static run and the eager run see the same parameters and batches. The mapping built by `create_parameter_mapping` is a bijection between main-program and startup parameters.
- **Stack rule.** Backward inference inverts forward inference on the test's inputs. (The rule itself is C++ outside this repository; see section 2, item 7.)

## 2. Plan

Modules, in the order they are built. The most important behaviour comes first.

1. `BatchNorm` is the core: construction, `train`/`eval`, the three forward paths and executor runs. It is checked by `MC_BatchNorm` and proved in `BatchNormProofs`. **Done in this sitting.**
2. `ConvLayers`: `Conv3D`, `Conv3DTranspose`, `TreeConv`, `RowConv`. Each has a construction action and a forward action that appends ops to an abstract program. It has two violation runs: the `Conv3DTranspose` bias and the unchecked `num_filters % groups`. A theorem covers the `Conv3D` channel arithmetic. **Done in this sitting.** `TreeConv`'s named output is recorded as a hazard, not modelled: see item 4.
3. `SimpleLayers`: `Linear`, `Embedding`, `GroupNorm`, `SpectralNorm`.
   - A violation run covers the `GroupNorm` default affine parameters.
   - The `padding_idx` normalisation is checked over bounded inputs against the docstring's rule.
   - **Done in this sitting.**
4. `StaticProgram`: dropped. Whether two forward calls clobber each other's outputs depends on variable naming (`unique_name`, and `create_var` on an existing name). That is framework code outside this repository. The named-`TreeConv` case is listed as an uncovered hazard in `PROJECT.json`.
5. `TrtShapeTest`: the two generators and the harness loop. It checks the consistency invariant, the refinement of the abstract cases `TrtShapeCases`, and a liveness property: the harness finishes both passes. Fairness is weak fairness on the harness step, which is a sequential loop. **Done in this sitting.**
6. `create_parameter_mapping` of the multi-forward test: an abstract one-step specification, `CreateParameterMapping`, and the loop-by-loop module `ParameterMapping` shown to implement it with `INSTANCE ... WITH`, by TLC and by a TLAPS proof. **Done in this sitting.** The test's two training phases never call the optimizer (`sgd` is created but not stepped) and compare runtime floating-point numerics, so there is no state machine of this repository in them: they are not modelled.
7. `StackSpmdRule`: dropped. The rule is C++ code of the phi library, which is not in this repository. The test only pins two dims mappings of its result, so a model would be invented rather than translated.

Theorems, in order:
- type correctness of `BatchNorm`, and that eval() (eager modes) and the constructor's is_test (static mode) freeze its running statistics (done);
- the `Conv3D` channel invariant (done);
- the refinement of `CreateParameterMapping` (done);
- the TensorRT configuration invariant (done);
- second sitting: `NoMissingParamRead` of the convolutions, and `PaddingIdxNormalised` of the simple layers (done);
- third sitting: `TypeOK` and `SpectralNormVectorsFit` of the simple layers, by induction over the weight shape, and the refinement of `TrtShapeCases` by the TensorRT test (done).

Liveness stays with TLC.

## 3. What is modelled so far

### `BatchNorm.tla` (class `BatchNorm`, `nn.py` 643-945)

State:
- `args`: the constructor arguments the behaviour depends on:
  - `param_attr`: None, False, or a ParamAttr with zero or nonzero learning rate;
  - `bias_attr`: None, False, or a ParamAttr;
  - `use_global_stats`, `trainable_statistics` and `is_test`.
- `phase`: before, after or raised out of `__init__`.
- `weightSG` and `biasSG`: the `stop_gradient` flags.
- `training`.
- `mode`: the execution mode.
- `stats`: the running-statistics updates received.
- `nops`: the `batch_norm` ops appended to the main program.
- `calls`: a bound on forward calls and runs.

Actions:
- `Construct` is all of `__init__`. The order of its raises follows Python's evaluation order: the `bias_attr` assert comes first; then, at line 783, the right-hand side (`param_attr.learning_rate`) is evaluated before the assignment to a possibly `None` `self.weight`.
- `Train` and `Eval`.
- `ForwardDygraph` covers both eager paths. They differ only in the kernel entry point.
- `ForwardStatic` appends one op, with the constructor's `is_test`.
- `RunProgram` executes every appended op.

The kernel's rule for when batch statistics are used and folded into the running statistics follows the class docstring: not with `use_global_stats`, and not in test mode unless `trainable_statistics` is set.

Left out, because no property tells them apart: momentum, epsilon, layout, dtype, names, `in_place` and the activation.

Runs, in `MC_BatchNorm` with all three modes and `MaxCalls = 4`:
- `batchnorm` (pass) checks the two documented switches of the running statistics. Four calls are enough for every order of eval, forward and two-op runs. It explores 3,476 states.
  - `EvalFreezesStats`: in the eager modes, after eval() and without `trainable_statistics`, no step moves the statistics. The mutant that passes `self.training` itself as `is_test` breaks it.
  - `IsTestFreezesStaticStats`: in static mode, with the constructor's `is_test` and without `trainable_statistics`, no step moves the statistics, whatever train() or eval() calls come in between. The docstring says `is_test` "only has effect on static graph mode". The mutant whose appended op takes `is_test` from the training flag, as the eager paths do, breaks it.
  - The `stop_gradient` flags are modelled as `__init__` computes them, but no property is stated about them: which learning rate should freeze the shift is not documented (hazard at line 794).
  - `CHECK_DEADLOCK FALSE` is used because a constructor that raised ends the script.
- `batchnorm_ctor` (violation) checks `ConstructorAcceptsDocumentedArgs`. TLC finds that `BatchNorm(C, use_global_stats=True)` with the default `param_attr=None` raises `AttributeError` at line 784: `None` has no `learning_rate`.

### `ConvLayers.tla` (`Conv3D`, `Conv3DTranspose`, `RowConv`, `TreeConv`)

One script builds one layer and calls its forward up to `MaxCalls` times.

State:
- `args`: the layer class and its constructor arguments:
  - two channel counts, `numChannels` and `numFilters`;
  - `groups` (an integer or `None`);
  - `param_attr` and `bias_attr`, each `None`, `False` or a ParamAttr.
- `mode`.
- `phase`.
- `weight`: the first two dimensions of the filter, or `None`.
- `bias`: its length, or `None`.
- `prog`: the sequence of ops appended through `LayerHelper.append_op`. Each op records its type, the forward call that appended it, the parameters it reads and its `groups` attribute.
- `calls`.

Actions, one per constructor and one per forward:
- `ConstructConv3D` (`nn.py` 176-238) raises on `param_attr=False`, or on `groups` that is 0 or does not divide `num_channels`. Otherwise it stores the filter `[F, C // groups]` and the bias.
- `ForwardConv3D` (240-275) appends `conv3d` with `groups` attribute `self._groups if self._groups else 1`, then the bias add when `self.bias is not None`.
- `ConstructConv3DTranspose` (420-470) turns `groups=None` into 1 and builds the filter `[C, F // groups]` with no divisibility check.
- `ForwardConv3DTranspose` (472-503) adds the bias only `if self._bias_attr`.
- `ConstructTreeConv` and `ForwardTreeConv` (1512-1584) create and add the bias only for a truthy `bias_attr`.
- `ConstructRowConv` asserts static mode. `ForwardRowConv` creates the filter on the first call (`_build_once`, run by `Layer.__call__`) and appends `row_conv`.

`Layer.create_parameter` is not under `src/`. It is modelled from its documented behaviour (`None` for `attr=False`) and marked `spec_modelled`. `param_attr=False` is documented only for the 3-D convolutions, which assert against it, so `TreeConv` and `RowConv` receive only `None` or a ParamAttr.

Runs, in `MC_ConvLayers`:
- The bounds are channels {2, 3}, groups {None, 0, 1, 2}, both modes and two forward calls. 2 does not divide 3, 0 raises, `None` takes the default path, and a second call shows whether the bias and the build-once filter behave on every call.
- `conv_layers` (pass) checks `TypeOK`, `ConvFilterConsistent` and `NoMissingParamRead` over 3,024 states:
  - every `conv3d` op's `groups` attribute times the filter's input channels equals `num_channels`, and the filter and the bias have `num_filters`;
  - no op reads a parameter the layer does not have.
- `conv_transpose_bias` (violation) checks `BiasUsedIffCreated`. `Conv3DTranspose` with the default `bias_attr=None` creates a bias, as its docstring says, but its forward never adds it.
- `conv_transpose_groups` (violation) checks `TransposeFilterConsistent`. `Conv3DTranspose(2, 3, groups=2)` is accepted, although the docstring promises `ValueError` on a groups mismatch. It builds a `[2, 1]` filter, so the op has 2 output channels where `num_filters` is 3.

### `SimpleLayers.tla` (`Linear`, `Embedding`, `GroupNorm`, `SpectralNorm`)

One script builds one layer and calls its forward up to `MaxCalls` times, in one of the three modes.

State:
- `args`: one record set per class, so that only the arguments a class takes are enumerated.
- `params`: the set of parameters `__init__` created. A parameter that `create_parameter` returned as `None` is absent.
- `paddingIdx`: Embedding's `self._padding_idx`.
- `vecLens`: the lengths of SpectralNorm's `weight_u` and `weight_v`.
- `trace`: the kernel calls (eager) or appended ops (static) of each forward call, with the parameters each reads.

Actions:
- `ConstructLinear` and `ForwardLinear`. Both eager paths go through `_append_bias_in_dygraph`, which skips a `None` bias. That helper is in `dygraph_utils`, outside `src/`, and its behaviour is taken from its use here. The static path tests `self.bias is not None`. The two paths give the same trace, so one action covers both.
- `ConstructEmbedding` applies `NormalisedPadding` (lines 1069-1075). `ForwardEmbedding` passes the attribute to `lookup_table_v2`.
- `ConstructGroupNorm` passes `attr or False` (`OrFalse`). `ForwardGroupNorm` hands `None` parameters to the eager kernels and leaves them out of the static op's inputs, which reads the same set of parameters.
- Each record keeps the parameters it reads, but no property compares the eager and static paths: the eager side of both (`_append_bias_in_dygraph`, the eager `group_norm` kernels and their treatment of a `None` scale or shift) is outside `src/`, so the divergence the hazards at lines 625 and 1315 describe cannot be judged from the source.
- `ConstructSpectralNorm` applies the two asserts and Python's negative indexing (`PyIndex`), and computes `h` and `w = prod // h`. `ForwardSpectralNorm` calls `spectral_norm`.

Runs, in `MC_SimpleLayers`:
- The bounds are Embedding sizes `<<2, 3>>` and `<<3, 2>>`, so that a slip between `size[0]` and `size[1]` shows. `padding_idx` ranges over -4..3, which covers both sides of `[-vocab, vocab)`. The weight shapes are `<<2, 3>>`, `<<2, 0>>` and `<<1, 2, 2>>`, and `dim` ranges over -4..3.
- `simple_layers` (pass, 600 states) checks `TypeOK` and two properties:
  - `PaddingIdxNormalised`: a documented `padding_idx` reaches `lookup_table_v2` as -1 or as a row index congruent to it;
  - `SpectralNormVectorsFit`: `h * w` is the weight's element count.
- `groupnorm_default` (violation) checks `GroupNormDefaultAffine`. The docstring says `param_attr=None` creates a scale initialised to one. `None or False` is `False`, so the default `GroupNorm` has neither a scale nor a shift.

### `TrtShapeGen.tla`, `TrtShapeCases.tla` and `TrtShapeTest.tla` (`test/ir/inference/test_trt_convert_shape.py`)

`TrtShapeGen` holds the test's pure functions, each taking as an argument the rank it reads from `self.dims`:
- the `dims` and `batch` loop lists and the order of their pairs (`Configs`);
- `generate_input1`, `clear_dynamic_shape`, `generate_dynamic_shape` and `generate_trt_nodes_num`;
- the harness's `SkipDims` and its assumption.

`TrtShapeCases` is the abstract specification: the cases the test means to run, as nested loops with no shared state.
- For each pass, and each `(dims, batch)` of the loops, the harness either skips it (`SkipCases`) or runs its cases in the order `sample_predictor_configs` lists them (`StartCases`, `RunCase`, `EndCases`).
- The cases are: static shape in Float32 and in Half, old IR only; then dynamic shape in Float32 and in Half.
- `Case(pass, d, b, k)` is the run a case should be: the input `generate_input1(b)` for rank `d`, the dynamic shape `generate_dynamic_shape()` for rank `d` or none, the precision as input type, and the node counts of its kind.

The test object is shared by two generators: `sample_program_configs` sets `self.dims` and yields one program configuration per `(dims, batch)`, and `sample_predictor_configs` mutates `self.dynamic_shape`, the precision and the configuration's input type between its yields. The harness `run_test` is not in this repository, so its loop is modelled from its documented use. It iterates the program generator lazily. It may skip a configuration (only for the ranks in `SkipDims`). Otherwise it iterates the predictor generator and runs each predictor at its yield. `test()` runs it for the old IR and then for PIR, where the predictor generator starts at the dynamic-shape stretch.

State: `selfDims`, `dyn` and `precision` are the shared attributes. `cfg` is the current program configuration, and its `data` is `<<>>` when `data_gen` has not been called yet. `dataGen` says whether `TensorConfig` calls `data_gen` at construction or at use; both are allowed. `runs` is the set of predictor configurations run, each with the input shape it was fed, its dynamic shape and its expected node counts. Each stretch of code between two yields is one action (`StaticFloat32`, `StaticHalf`, `DynamicFloat32`, `DynamicHalf`).

Run `trt_shape` (pass, 9,582 states, `SkipDims = {2, 3}`):
- `PredictorConfigsConsistent`: every run's input has the rank of its configuration, its precision is its input type, and its expected node counts are the dynamic ones exactly when a dynamic shape is set, which then contains the input. The mutant that makes `clear_dynamic_shape` a no-op breaks it.
- `ImplementsCases`: `TrtShapeTest` implements `TrtShapeCases` under the refinement mapping:
  - `pos` is `pi`, or `pi - 1` while the harness holds a configuration;
  - `slot` is `seg` while the predictor generator runs, and 0 otherwise.

  Every yield is the intended case, and the other steps skip, start or finish a configuration, end a pass, or stutter. The property is stronger than the invariant: it fixes the exact input and dynamic shape of each run, the order of the runs, and the absence of static cases in the PIR pass. The mutant that ignores `run_pir`, so that the PIR pass also runs the static cases, breaks it and leaves `PredictorConfigsConsistent` intact.
- `EventuallyAllCovered`: `test()` ends with every rank and batch run under a dynamic shape in both passes, skips aside. It is a liveness property under `WF_vars(Next)`, justified because the harness is a loop with no waiting. `CHECK_DEADLOCK FALSE` because `test()` returns.

### `CreateParameterMapping.tla` and `ParameterMapping.tla` (`test_dygraph_multi_forward.py` 107-128)

`create_parameter_mapping(startup_program, main_program)` pairs each PIR parameter of the main program with the value that the startup program stores for the same name. The test then looks up every parameter of the model in this mapping (line 230).

- `CreateParameterMapping` is the specification. It has one `Compute` step. `Table(prog, opName, m)` is the dict that a loop over the first `m` ops builds, where a name's value is the one its last declaration writes (`LastWrite`). If the two programs declare the same names, the result is `Expected`, which maps each main value to the startup value of its name. Otherwise the call fails.
- `ParameterMapping` is the code, loop by loop:
  - `ScanStartupOp` and `ScanMainOp` are one iteration each of the two scans. `EndStartupScan` and `EndMainScan` end them.
  - `CheckSizes` is the `len` assertion.
  - `MapParameter` is one iteration of the items loop. It either maps a name or fails its `name in main_params` assertion. Its order over the names is left free.
  - `ReturnMapping` returns the mapping.
- The refinement mapping sends `pc` to the specification's `status` (pending, done or failed). It sends the returned mapping to `out`.
- Programs are op lists of up to `MaxOps` ops: parameter ops over `Names` and `Values`, plus one other op. `FreshResults` says that no two parameter ops of the main program have the same result. This is how PIR values behave (every op result is a new value), taken from the PIR semantics and marked `spec_modelled`.

Run `param_mapping` (pass, 5,943 states):
- It checks `ImplementsSpec` (`Abs!Spec`) with two names, two values and programs of up to two ops. These bounds cover:
  - a name missing on one side;
  - a name declared twice;
  - two names swapped between the programs;
  - sizes that are equal while the names differ.
- The mutant that drops the size assertion returns a mapping that omits a main parameter, and TLC reports it.

Proof, `ParameterMappingProofs.tla`, theorem `ImplementsSpecHolds`: `Spec => ImplementsSpec` for every finite `Names`, every `Values` and every `MaxOps \in Nat`.
- The inductive invariant `IInv` says what each loop has built:
  - after `i - 1` ops, a dict is `Table(prog, opName, i - 1)`;
  - every declared name has a last declaration (`Known`);
  - in the items loop, the mapping is `MapOf(sp, mp, visited names)`;
  - `failed` implies that the names differ.
- `TableStep` shows that one op extends `Table` as the loop's dict assignment does. It also shows that `Known` carries over, which replaces an induction over the list.
- `TableInjective`, which rests on `FreshResults`, makes the main dict injective. `MapOfStep` needs it: the specification's `CHOOSE` of "the" name with a given value must be the name the loop just visited.
- At the return, `FS_Subset` turns "subset with equal cardinality" into equal name sets. This is exactly why the size assertion and the per-name assertion together decide `SameNames`.

### Proofs (`BatchNormProofs.tla`)

The theorems hold for every value of `Modes` and `MaxCalls` that satisfies the module's assumptions.
- `TypeCorrect`: `Spec => []TypeOK`.
- `EvalFreezesStatsHolds`: `Spec => EvalFreezesStats`. Every step, under the hypotheses of the property, leaves `stats` unchanged: one case per action.
- `IsTestFreezesStaticStatsHolds`: `Spec => IsTestFreezesStaticStats`, by the same per-action argument. `RunProgram` is the only step of a static layer that can move the statistics, and its ops carry `IsTestStatic`, the constructor's flag.

`TypeOK` of `BatchNorm` is proved but not model-checked: no plausible slip in the code yields an ill-typed flag that TLC could report as a violation rather than an evaluation error.

### Proofs (`ConvLayersProofs.tla`)

These hold for every set of channel counts, groups, modes and every `MaxCalls`:
- `TypeCorrect`: `Spec => []TypeOK`. It rests on the lemma `OpsTyped` (every op a forward appends is an `Op`), `FilterChannelsNat`, and the sequence facts `ConcatProperties` and `AppendProperties` of the library.
- `ConvFilterConsistentHolds`: `Spec => []ConvFilterConsistent`. The invariant is not inductive, so `IInv` strengthens it:
  - every op in `prog` that is a `conv3d` op comes from a `Conv3D`, with the groups attribute of its own arguments (`prog \in Seq(GoodOps)`);
  - no op exists before a constructor succeeded;
  - a built `Conv3D` passed its checks and holds the filter and bias its constructor computed.

  The arithmetic step is `Conv3DChannels`: `GroupsAttr(groups) * (C \div groups) = C` when `C % groups = 0`, and `1 * C = C` for `groups=None`.
- `NoMissingParamReadHolds`: `Spec => []NoMissingParamRead`. The invariant says nothing of the parameters a forward is about to read, so `ReadInv` strengthens it:
  - every op in `prog` reads only parameters that exist (`prog \in Seq(ReadsOK)`);
  - a layer that is not built has had no forward call, and before the first call `prog` is empty;
  - a built `Conv3D`, `Conv3DTranspose` or `TreeConv` has its filter. `param_attr=False` raises in the 3-D convolutions and is not a documented value for `TreeConv` (`AttrsTyped`, `FilterCreated`);
  - a built `Conv3DTranspose` or `TreeConv` with a ParamAttr `bias_attr` has its bias, which is what the forwards test before adding it;
  - a `RowConv` that has run a forward has its filter. The step proof shows that the first call creates it on the empty program, before its `row_conv` is appended.

### Proofs (`SimpleLayersProofs.tla`)

These hold for every set of kinds, modes, Embedding sizes, `padding_idx` values and `dim` values, and every `MaxCalls`:
- `PaddingIdxNormalisedHolds`: `Spec => []PaddingIdxNormalised`.

The invariant is not inductive. `IInv` describes the trace with `TraceOK(trace, calls, params, K, a)`:
- every record belongs to a finished call and reads only created parameters;
- each created parameter is read by some record of every call;
- a `lookup_table_v2` record exists only for an Embedding, and carries `self._padding_idx`.

`IInv` also records what each constructor leaves behind:
- a `Linear` always has its weight, and only a weight and a bias;
- an Embedding has `paddingIdx = NormalisedPadding(padding_idx, size)`.

The argument has three lemmas:
- `AppendStep`: appending the records of call `n`, described by `CallOK`, to a trace of calls `0..n-1` gives a trace of calls `0..n`. It uses `ConcatProperties`.
- `ForwardCallOK`: the records of each of the four forwards satisfy `CallOK`. For `Linear` there are two cases, with and without a bias.
- `PaddingArith`: the arithmetic of `Embedding.__init__`. For `padding_idx` in `-vocab_size..vocab_size-1`, the normalised index is a row of the table, and its difference from `padding_idx` is 0 or `vocab_size`.

### Proofs (`SimpleLayersProdProofs.tla`)

These hold for every value of the constants, like those of `SimpleLayersProofs`, which this module extends:
- `TypeCorrect`: `Spec => []TypeOK`. The point is `vecLens \in Seq(Int)`: the lengths `h` and `prod // h` that `SpectralNorm.__init__` gives `weight_u` and `weight_v` are integers.
- `SpectralNormVectorsFitHolds`: `Spec => []SpectralNormVectorsFit`. For every shape and `dim` the constructor accepts, `h * (prod // h) = prod`: the integer division loses nothing.

Both need facts about `Prod`, a recursive function over the weight shape.
- The library's induction theorems take the predicate as an operator parameter, and the installed provers cannot instantiate one. Both `NatInduction` and `FiniteNatInductiveDef` were tried, and both fail.
- Each induction here is a least counterexample instead. Take the set of indices where the claim fails, a set of naturals. `LeastNat` gives its least element: `WFMin` applied to `NatLessThanWellFounded`, with `OpToRel` expanded so that no LAMBDA reaches the backends. The step from the index below then refutes the claim.
- `ProdPrefixExists` builds, by this induction, a function holding the products of every prefix. So `ProdFDef` shows that the `CHOOSE` behind the recursive definition picks a function satisfying its equation.
- `ProdFFactors` shows that every prefix product is an integer and a multiple of each of its factors. `ProdDivExact` follows: when the product of a shape of naturals is positive, every dimension is positive and divides it.
- The strengthening `VecInv` adds, beside `IInv`, that a built `SpectralNorm` passed the constructor's checks and holds `SpectralNormLens` of its unchanging arguments. `SpectralNormLensFit` is the arithmetic of the constructor. It picks the dimension with Python indexing, which is within `1..Len(shape)` when `-rank <= dim < rank`.

### Proofs (`TrtShapeTestProofs.tla`)

`PredictorConfigsConsistentHolds`: `Spec => []PredictorConfigsConsistent`, for every `SkipDims \subseteq 1..4`.
- The invariant speaks only of the runs recorded so far, so it is not inductive.
- `IInv` adds what the code keeps true of the shared state between two yields:
  - after a program configuration is yielded, `self.dims` is its rank (`CfgOK`);
  - its data, once generated, is `generate_input1`'s shape for that rank;
  - the dynamic shape is empty after the static Float32 stretch;
  - the dynamic shape is the current rank's after the dynamic Float32 stretch;
  - the PIR pass starts at the dynamic stretch.
- `InputFits` checks, rank by rank, that `generate_input1` and `generate_dynamic_shape` agree.
- `YieldStep` shows that a yield records a consistent run whenever the dynamic shape it configures matches the node counts it expects.
- `ImplementsCasesHolds`: `Spec => ImplementsCases`, the refinement of `TrtShapeCases`, step by step. It adds `PosInv` to `IInv`: the position stays within the loops, and while the harness holds a configuration, that configuration is the pair at `pi - 1`.
  - `YieldIsCase` shows that a yield at stretch `k` records exactly `Case(ir, dims, batch, k)`. That needs what `IInv` says of the shared state: `self.dims` is the configuration's rank, the data is `generate_input1`'s whichever moment it is generated, and the dynamic shape is cleared or the current rank's.
  - `SameConfigs` and `SameGen` identify the instance's copies of the generator functions with the model's.
  - Each action of `Next` is then one step of `TrtShapeCases` or a stutter of its variables.
- The liveness property `EventuallyAllCovered` is not proved; it is only checked by TLC.

### Only model-checked, and out of reach

- Liveness (`EventuallyAllCovered` of the TensorRT harness) is checked by TLC only: TLAPS does not reason about fairness and ENABLED.
- Every invariant of a passing run is now proved. The two that need what `Prod` computes are proved by least-counterexample induction (see `SimpleLayersProdProofs`), because the library's induction theorems, stated with an operator parameter, cannot be instantiated by the installed provers. No module declares a RECURSIVE operator: `Prod` is a recursive function, which the provers can unfold.
- Native kernels, the autograd engine, the executor's internals, the TensorRT lowering and the SPMD rule solver are not in the slice. Where a property needs their behaviour, it is taken from a docstring in `src/` or marked `spec_modelled` in `PROJECT.json`.

---------------------------- MODULE Blake3Build ----------------------------
(***************************************************************************)
(* blake3/build.rs: which kernels a build contains.  A target is its first *)
(* component, its operating system and its byte order; what the C compiler *)
(* of the host can do is an input.  A build panics or yields a set of cfg  *)
(* names (without their blake3_ prefix), and for AVX-512 whether the       *)
(* assembly or the C file was compiled.                                    *)
(***************************************************************************)
EXTENDS FiniteSets

Targets ==
  {[arch |-> "x86_64", os |-> "windows", little |-> TRUE]}
  \cup {[arch |-> a, os |-> "linux", little |-> TRUE] :
     a \in {"x86_64", "i686", "aarch64", "armv7", "arm", "wasm32", "riscv64"}}
  \cup {[arch |-> a, os |-> "linux", little |-> FALSE] : a \in {"aarch64_be", "arm"}}

Features == {"pure", "neon", "no_neon", "prefer_intrinsics", "wasm32_simd"}

IsX86_64(t) == t.arch = "x86_64"
IsX86_32(t) == t.arch \in {"i386", "i586", "i686"}
IsX86(t) == IsX86_64(t) \/ IsX86_32(t)
IsAarch64(t) == t.arch = "aarch64"
IsArm(t) == t.arch = "armv7" \/ IsAarch64(t) \/ t.arch = "arm"
IsWasm32(t) == t.arch = "wasm32"

\* c_compiler_support: both AVX-512 flags are tried, the second only after the first.
CCompilerSupport(cc) ==
  IF ~cc.present THEN "NoCompiler"
  ELSE IF cc.avx512f /\ cc.avx512vl THEN "YesAVX512" ELSE "NoAVX512"

CCompilers == [present : BOOLEAN, avx512f : BOOLEAN, avx512vl : BOOLEAN]

RustSseAvx == {"sse2_rust", "sse41_rust", "avx2_rust"}
AssemblySseAvx == {"sse2_ffi", "sse41_ffi", "avx2_ffi"}

\* SSE2, SSE4.1 and AVX2: the intrinsics in Rust, or the assembly
SseAvx(t, features, support) ==
  IF IsX86_32(t) \/ features \cap {"prefer_intrinsics", "pure"} # {} \/ support = "NoCompiler"
  THEN RustSseAvx ELSE AssemblySseAvx

\* AVX-512: nothing, the C intrinsics, or the assembly
Avx512(t, features, support) ==
  IF "pure" \in features \/ support # "YesAVX512" THEN {}
  ELSE IF IsX86_32(t) \/ "prefer_intrinsics" \in features
  THEN {"avx512_ffi", "avx512_c"} ELSE {"avx512_ffi", "avx512_asm"}

Neon(t, features) ==
  IF (IsArm(t) /\ "neon" \in features)
       \/ (features \cap {"no_neon", "pure"} = {} /\ IsAarch64(t) /\ t.little)
  THEN {"neon"} ELSE {}

WasmSimd(t, features) ==
  IF IsWasm32(t) /\ "wasm32_simd" \in features THEN {"wasm32_simd"} ELSE {}

\* main
BuildPanics(t, features) ==
  \/ {"pure", "neon"} \subseteq features
  \/ {"no_neon", "neon"} \subseteq features
  \/ "neon" \in features /\ ~t.little

BuildCfgs(t, features, support) ==
  (IF IsX86(t) THEN SseAvx(t, features, support) \cup Avx512(t, features, support) ELSE {})
    \cup Neon(t, features) \cup WasmSimd(t, features)
=============================================================================
